---- MODULE Spec2Model ----
(***************************************************************************)
(* Formula parser core of the AI service (utils/formula_parser.py):        *)
(* FormulaParser.parse, tokenize, build_ast, _build_tree, _validate_ast,   *)
(* _calculate_complexity and analyze_dependencies; and the formula         *)
(* validator (utils/validation.py): FormulaValidator.validate_syntax,      *)
(* validate_references, validate_functions, check_semantic_validity, with  *)
(* the pipeline FormulaController._validate_formula runs them in.          *)
(*                                                                         *)
(* Text is a sequence of one-character strings.  Offsets are the 0-based   *)
(* offsets of the Python code: At(s, p) is s[p], Slice(s, a, b) is s[a:b]. *)
(***************************************************************************)
EXTENDS Integers, Sequences, FiniteSets, TLC

VARIABLES
    input,          \* the text handed to parse / analyze_dependencies
    pc,             \* "idle", "tokenize", "build_ast", "validate", "done", "analyzed"
    formula,        \* parse's local `formula` (after the '=' normalisation)
    current_pos,    \* tokenize: scan offset
    tokens,         \* tokenize: token list built so far
    tok_idx,        \* build_ast: index (1-based) of the next token of the for loop
    stack,          \* build_ast: operator stack
    output,         \* build_ast: output queue (postfix)
    ast,            \* parse: what build_ast returned
    result,         \* what parse returned
    dependency_map, \* the parser's _dependency_map field
    dependencies,   \* what analyze_dependencies returned
    validation_context, \* the validator's _validation_context
    valid_functions,    \* the validator's _valid_functions
    syntax_cache,       \* the lru_cache of validate_syntax, least recently used first
    called,             \* the validator operation called last, with its arguments
    validator_result,   \* what that operation returned
    formula_obj,        \* the Formula instance: its fields, None before it is constructed
    returned            \* what the last call on the Formula model returned or raised

validator_vars == <<validation_context, valid_functions, syntax_cache, called,
                    validator_result>>

parser_vars == <<pc, formula, current_pos, tokens, tok_idx, stack, output, ast,
                 result, dependency_map, dependencies>>

model_vars == <<formula_obj, returned>>

vars == <<input, parser_vars, validator_vars, model_vars>>

(***************************************************************************)
(* Bounds of the explored inputs.                                          *)
(***************************************************************************)
MaxChunks == 4
MaxOps == 3
MaxArgs == 3
MaxDeps == 2
MaxScanChunks == 3
MaxErrors == 3

(***************************************************************************)
(* Program constants.                                                      *)
(***************************************************************************)
MAX_FORMULA_LENGTH == 1000

\* FORMULA_GENERATION['MIN_CONFIDENCE_SCORE'], 0.8, in hundredths
MIN_CONFIDENCE_SCORE == 80

\* Python's None
None == [type |-> "None"]

\* a formula argument that is not a text (None): kept apart from every text,
\* whose elements are single characters
NotText == <<"None">>

(***************************************************************************)
(* Character classes.                                                      *)
(***************************************************************************)
Upper == {"A","B","C","D","E","F","G","H","I","J","K","L","M",
          "N","O","P","Q","R","S","T","U","V","W","X","Y","Z"}

Lower == {"a","b","c","d","e","f","g","h","i","j","k","l","m",
          "n","o","p","q","r","s","t","u","v","w","x","y","z"}

\* [A-Z] under re.IGNORECASE; str.isalpha on the modelled alphabet
Letters == Upper \cup Lower

\* \d; str.isdigit on the modelled alphabet
Digits == {"0","1","2","3","4","5","6","7","8","9"}

\* \s; str.isspace
Whitespace == {" ", "\t", "\n"}

\* [A-Za-z0-9\s] : the characters of a sheet name
SheetChars == Letters \cup Digits \cup Whitespace

\* [\+\-\*/\^&=><]
OperatorChars == {"+", "-", "*", "/", "^", "&", "=", ">", "<"}

\* '(),:'
DelimiterChars == {"(", ")", ",", ":"}

NumberChars == Digits \cup {"."}

(***************************************************************************)
(* Text helpers.                                                           *)
(***************************************************************************)
At(s, p) == s[p + 1]

Slice(s, a, b) == SubSeq(s, a + 1, b)

\* length of the longest run of characters of Class starting at offset p
RECURSIVE RunLen(_, _, _)
RunLen(s, p, Class) ==
    IF p < Len(s) /\ At(s, p) \in Class THEN 1 + RunLen(s, p + 1, Class) ELSE 0

Is(s, p, c) == p < Len(s) /\ At(s, p) = c

(***************************************************************************)
(* The three compiled patterns, matched at offset p of s (as               *)
(* pattern.match(s[p:]) does).  A match is given by the offset where it    *)
(* ends; Fail (-1) is no match.  Every quantifier of the patterns is       *)
(* greedy and the classes that follow one another are disjoint, so the     *)
(* first match of the backtracking search is the one computed here.        *)
(***************************************************************************)
Fail == 0 - 1

\* _function_pattern  ([A-Z]+)(?=\()  : length of the name, 0 when no match
FunctionMatch(s, p) ==
    LET n == RunLen(s, p, Letters)
    IN  IF n > 0 /\ Is(s, p + n, "(") THEN n ELSE 0

\* \$?[A-Z]+\$?\d+
CellEnd(s, p) ==
    LET p1 == IF Is(s, p, "$") THEN p + 1 ELSE p
        n  == RunLen(s, p1, Letters)
        p2 == p1 + n
        p3 == IF Is(s, p2, "$") THEN p2 + 1 ELSE p2
        m  == RunLen(s, p3, Digits)
    IN  IF n > 0 /\ m > 0 THEN p3 + m ELSE Fail

\* a range tail that lets every cell stand alone (a reference never
\* continues over ':')
RangeEndNoTail(s, e) == e

\* (?:\:\$?[A-Z]+\$?\d+)?  after a cell that ends at e
RangeEnd(s, e) ==
    IF Is(s, e, ":") /\ CellEnd(s, e + 1) # Fail THEN CellEnd(s, e + 1) ELSE e

\* (?:\'?[A-Za-z0-9\s]+\'?!)  : the sheet prefix
PrefixEnd(s, p) ==
    LET q  == IF Is(s, p, "'") THEN p + 1 ELSE p
        n  == RunLen(s, q, SheetChars)
        q2 == q + n
        q3 == IF Is(s, q2, "'") THEN q2 + 1 ELSE q2
    IN  IF n > 0 /\ Is(s, q3, "!") THEN q3 + 1 ELSE Fail

\* _reference_pattern : with the sheet prefix when the whole then matches,
\* else without it
ReferenceMatch(s, p) ==
    LET pe == PrefixEnd(s, p)
        c1 == IF pe # Fail THEN CellEnd(s, pe) ELSE Fail
        c0 == CellEnd(s, p)
    IN  IF c1 # Fail THEN RangeEnd(s, c1)
        ELSE IF c0 # Fail THEN RangeEnd(s, c0)
        ELSE Fail

\* _operator_pattern  [\+\-\*/\^&=><]+  : length of the run, 0 when no match
OperatorMatch(s, p) == RunLen(s, p, OperatorChars)

(***************************************************************************)
(* Results of the parser: the dictionaries the code returns.  `error` is   *)
(* the ERROR_CODES key, `details` the message (with its parameters).       *)
(***************************************************************************)
InvalidInput ==
    [success |-> FALSE, error |-> "AI_003", details |-> [msg |-> "Invalid formula input"]]

LengthExceeded ==
    [success |-> FALSE, error |-> "AI_002",
     details |-> [msg |-> "Formula exceeds maximum length"]]

\* f'Unexpected character at position {current_pos}: {char}'
UnexpectedCharacter(pos, char) ==
    [success |-> FALSE, error |-> "AI_002",
     details |-> [msg |-> "Unexpected character", position |-> pos, char |-> char]]

(***************************************************************************)
(* tokenize: one iteration of the scan loop at offset p with the tokens    *)
(* built so far.  Gives the new offset and token list, or the failure      *)
(* dictionary the iteration returns.                                       *)
(***************************************************************************)
Token(type, value, position) == [type |-> type, value |-> value, position |-> position]

\* a scan that goes on one character short of the end of what it matched
ContinueBehind(p, toks) == [returned |-> FALSE, current_pos |-> p - 1, tokens |-> toks]

\* `continue`: the loop goes on at offset p with the tokens toks
Continue(p, toks) == [returned |-> FALSE, current_pos |-> p, tokens |-> toks]

Return(p, r) == [returned |-> TRUE, current_pos |-> p, value |-> r]

\* offset of the first '"' at or after q, Len(s) when there is none
RECURSIVE FindQuote(_, _)
FindQuote(s, q) ==
    IF q < Len(s) /\ At(s, q) # "\"" THEN FindQuote(s, q + 1) ELSE q

TokenizeIteration(s, p, toks) ==
    LET char == At(s, p)
        fn   == IF char \in Letters THEN FunctionMatch(s, p) ELSE 0
        ref  == ReferenceMatch(s, p)
        op   == OperatorMatch(s, p)
        num  == RunLen(s, p, NumberChars)
        q    == FindQuote(s, p + 1)
    IN  IF char \in Whitespace THEN Continue(p + 1, toks)
        ELSE IF fn > 0 THEN
            Continue(p + fn, Append(toks, Token("function", Slice(s, p, p + fn), p)))
        ELSE IF ref # Fail THEN
            Continue(ref, Append(toks, Token("reference", Slice(s, p, ref), p)))
        ELSE IF op > 0 THEN
            Continue(p + op, Append(toks, Token("operator", Slice(s, p, p + op), p)))
        ELSE IF char \in DelimiterChars THEN
            Continue(p + 1, Append(toks, Token("delimiter", <<char>>, p)))
        ELSE IF num > 0 THEN
            Continue(p + num, Append(toks, Token("number", Slice(s, p, p + num), p)))
        ELSE IF char = "\"" /\ q < Len(s) THEN
            Continue(q + 1, Append(toks, Token("string", Slice(s, p, q + 1), p)))
        ELSE IF char = "\"" THEN
            \* the string branch has moved current_pos to the end of the text
            Return(q, UnexpectedCharacter(q, char))
        ELSE Return(p, UnexpectedCharacter(p, char))


(***************************************************************************)
(* build_ast: the shunting-yard pass.                                      *)
(***************************************************************************)
Top(s) == s[Len(s)]

Front(s) == SubSeq(s, 1, Len(s) - 1)

Str(c) == <<c>>

\* the `operators` table of build_ast
OperatorTable ==
    (Str("+") :> [precedence |-> 1, associativity |-> "left"]) @@
    (Str("-") :> [precedence |-> 1, associativity |-> "left"]) @@
    (Str("*") :> [precedence |-> 2, associativity |-> "left"]) @@
    (Str("/") :> [precedence |-> 2, associativity |-> "left"]) @@
    (Str("^") :> [precedence |-> 3, associativity |-> "right"]) @@
    (Str("&") :> [precedence |-> 1, associativity |-> "left"]) @@
    (Str("=") :> [precedence |-> 0, associativity |-> "left"]) @@
    (Str(">") :> [precedence |-> 0, associativity |-> "left"]) @@
    (Str("<") :> [precedence |-> 0, associativity |-> "left"])

MismatchedParentheses ==
    [success |-> FALSE, error |-> "AI_002", details |-> [msg |-> "Mismatched parentheses"]]

InvalidFormulaStructure ==
    [success |-> FALSE, error |-> "AI_002", details |-> [msg |-> "Invalid formula structure"]]

\* the except clause of build_ast: f'AST construction failed: {str(e)}'
BuildAstExcept(exc) ==
    [success |-> FALSE, error |-> "AI_002",
     details |-> [msg |-> "AST construction failed", exc |-> exc]]

\* outcomes of a piece of build_ast: it goes on with a stack and an output
\* queue, it returns a dictionary, or it raises
Goes(st, out) == [raised |-> FALSE, returned |-> FALSE, stack |-> st, output |-> out]

Returns(v) == [raised |-> FALSE, returned |-> TRUE, value |-> v]

Raises(exc) == [raised |-> TRUE, returned |-> FALSE, exc |-> exc]

\* a comparison that ignores precedence: every waiting operator is popped
PopsOperatorAlways(op, top) == TRUE

\* a comparison that pops a waiting operator of higher precedence only
PopsOperatorStrict(op, top) ==
    OperatorTable[op].precedence < OperatorTable[top].precedence

\* the condition of the pop-while loop, for two operators of the table
PopsOperator(op, top) ==
    \/ /\ OperatorTable[op].associativity = "left"
       /\ OperatorTable[op].precedence <= OperatorTable[top].precedence
    \/ /\ OperatorTable[op].associativity = "right"
       /\ OperatorTable[op].precedence < OperatorTable[top].precedence

\* operators[...] raises KeyError: the condition looks up the token's
\* operator first and, whatever its associativity, the stacked one next
LookupRaises(op, top) ==
    op \notin DOMAIN OperatorTable \/ top \notin DOMAIN OperatorTable

\* while stack and stack[-1] is an operator and <condition>: output.append(stack.pop())
RECURSIVE PopOperators(_, _, _)
PopOperators(op, st, out) ==
    IF st # <<>> /\ Top(st).type = "operator"
    THEN IF LookupRaises(op, Top(st).value) THEN Raises("KeyError")
         ELSE IF PopsOperator(op, Top(st).value)
              THEN PopOperators(op, Front(st), Append(out, Top(st)))
              ELSE Goes(st, out)
    ELSE Goes(st, out)

\* while stack and stack[-1]['type'] != 'left_paren': output.append(stack.pop())
RECURSIVE PopToParen(_, _)
PopToParen(st, out) ==
    IF st # <<>> /\ Top(st).type # "left_paren"
    THEN PopToParen(Front(st), Append(out, Top(st)))
    ELSE Goes(st, out)

\* the branch of ')'
CloseParen(st, out) ==
    LET r  == PopToParen(st, out)
        s1 == Front(r.stack)
    IN  IF r.stack = <<>> THEN Returns(MismatchedParentheses)
        ELSE IF s1 # <<>> /\ Top(s1).type = "function"
             THEN Goes(Front(s1),
                       Append(r.output, [type |-> "function_call",
                                         value |-> Top(s1).value,
                                         arg_count |-> Top(s1).arg_count + 1]))
             ELSE Goes(s1, r.output)

\* a ',' outside every parenthesis reported as a parenthesis mismatch
CommaAsMismatch(st, out) ==
    LET r == PopToParen(st, out)
    IN  IF r.stack = <<>> THEN Returns(MismatchedParentheses)
        ELSE Goes(r.stack, r.output)

\* the branch of ','
Comma(st, out) ==
    LET r == PopToParen(st, out)
    IN  IF r.stack = <<>> THEN Returns(InvalidFormulaStructure)
        ELSE IF Top(r.stack).type = "function"
             THEN Goes([r.stack EXCEPT ![Len(r.stack)].arg_count = @ + 1], r.output)
             ELSE Goes(r.stack, r.output)

\* the body of `for token in tokens`
BuildAstToken(token, st, out) ==
    IF token.type \in {"number", "string", "reference"} THEN
        Goes(st, Append(out, [type |-> "operand", value |-> token.value,
                              token_type |-> token.type]))
    ELSE IF token.type = "function" THEN
        Goes(Append(st, [type |-> "function", value |-> token.value, arg_count |-> 0]), out)
    ELSE IF token.type = "operator" THEN
        LET r == PopOperators(token.value, st, out)
        IN  IF r.raised THEN r
            ELSE Goes(Append(r.stack, [type |-> "operator", value |-> token.value]), r.output)
    ELSE IF token.value = Str("(") THEN Goes(Append(st, [type |-> "left_paren"]), out)
    ELSE IF token.value = Str(")") THEN CloseParen(st, out)
    ELSE IF token.value = Str(",") THEN Comma(st, out)
    ELSE Goes(st, out)

\* an emptying loop that takes an open parenthesis for an operator
EmptyStackUnchecked(st, out) ==
    IF st = <<>> THEN Goes(st, out)
    ELSE Goes(<<>>, out \o [i \in 1..Len(st) |-> st[Len(st) + 1 - i]])

\* "Empty remaining stack"
RECURSIVE EmptyStack(_, _)
EmptyStack(st, out) ==
    IF st = <<>> THEN Goes(st, out)
    ELSE IF Top(st).type = "left_paren" THEN Returns(MismatchedParentheses)
    ELSE EmptyStack(Front(st), Append(out, Top(st)))

(***************************************************************************)
(* _build_tree: postfix to tree.  list.pop() on an empty list raises       *)
(* IndexError.                                                             *)
(***************************************************************************)
Leaf(token) == [type |-> token.token_type, value |-> token.value]

Operation(op, left, right) ==
    [type |-> "operation", operator |-> op, left |-> left, right |-> right]

Function(name, args) == [type |-> "function", name |-> name, arguments |-> args]

RECURSIVE BuildTreeFrom(_, _, _)
BuildTreeFrom(postfix, i, st) ==
    IF i > Len(postfix) THEN Goes(st, postfix)
    ELSE LET token == postfix[i]
             n     == Len(st)
         IN  IF token.type = "operand" THEN
                 BuildTreeFrom(postfix, i + 1, Append(st, Leaf(token)))
             ELSE IF token.type = "operator" THEN
                 IF n < 2 THEN Raises("IndexError")
                 ELSE BuildTreeFrom(postfix, i + 1,
                          Append(SubSeq(st, 1, n - 2),
                                 Operation(token.value, st[n - 1], st[n])))
             ELSE IF token.type = "function_call" THEN
                 IF n < token.arg_count THEN Raises("IndexError")
                 ELSE BuildTreeFrom(postfix, i + 1,
                          Append(SubSeq(st, 1, n - token.arg_count),
                                 Function(token.value,
                                          SubSeq(st, n - token.arg_count + 1, n))))
             ELSE BuildTreeFrom(postfix, i + 1, st)

\* [raised, tree]: `stack[0] if stack else None`
BuildTree(postfix) ==
    LET r == BuildTreeFrom(postfix, 1, <<>>)
    IN  IF r.raised THEN r
        ELSE [raised |-> FALSE, tree |-> IF r.stack # <<>> THEN r.stack[1] ELSE None]

\* the end of build_ast, from the emptied stack's postfix
BuildAstReturn(postfix) ==
    LET t == BuildTree(postfix)
    IN  IF t.raised THEN BuildAstExcept(t.exc)
        ELSE [success |-> TRUE, tree |-> t.tree]


(***************************************************************************)
(* _validate_ast and _calculate_complexity.                                *)
(***************************************************************************)
Has(node, keys) == keys \subseteq DOMAIN node

RECURSIVE ValidateNode(_, _)
RECURSIVE ValidateArguments(_, _, _)
\* validate_node: errs is validation_result['errors'] so far; None stands for
\* a node that is no dictionary
ValidateNode(node, errs) ==
    IF node = None THEN Append(errs, "Invalid node structure")
    ELSE IF ~Has(node, {"type"}) THEN Append(errs, "Node missing type")
    ELSE IF node.type = "operation" THEN
        IF ~Has(node, {"operator", "left", "right"})
        THEN Append(errs, "Invalid operation node structure")
        ELSE ValidateNode(node.right, ValidateNode(node.left, errs))
    ELSE IF node.type = "function" THEN
        IF ~Has(node, {"name", "arguments"})
        THEN Append(errs, "Invalid function node structure")
        ELSE ValidateArguments(node.arguments, 1, errs)
    ELSE errs

ValidateArguments(args, i, errs) ==
    IF i > Len(args) THEN errs
    ELSE ValidateArguments(args, i + 1, ValidateNode(args[i], errs))

ValidateAst(tree) ==
    IF tree = None THEN [success |-> FALSE, error |-> "Empty AST"]
    ELSE LET errs == ValidateNode(tree, <<>>)
         IN  [success |-> errs = <<>>, errors |-> errs, warnings |-> <<>>]

Max(a, b) == IF a >= b THEN a ELSE b

RECURSIVE AnalyzeNode(_, _, _)
RECURSIVE AnalyzeArguments(_, _, _, _)
\* analyze_node: m is `metrics` so far
AnalyzeNode(node, depth, m) ==
    LET m1 == [m EXCEPT !.depth = Max(@, depth)]
    IN  IF node.type = "operation" THEN
            AnalyzeNode(node.right, depth + 1,
                AnalyzeNode(node.left, depth + 1, [m1 EXCEPT !.operations = @ + 1]))
        ELSE IF node.type = "function" THEN
            AnalyzeArguments(node.arguments, 1, depth + 1, [m1 EXCEPT !.functions = @ + 1])
        ELSE IF node.type = "reference" THEN [m1 EXCEPT !.references = @ + 1]
        ELSE m1

AnalyzeArguments(args, i, depth, m) ==
    IF i > Len(args) THEN m
    ELSE AnalyzeArguments(args, i + 1, depth, AnalyzeNode(args[i], depth, m))

\* a descent that counts the root as depth 0
CalculateComplexityFromZero(tree) ==
    AnalyzeNode(tree, 0, [depth |-> 0, operations |-> 0, functions |-> 0, references |-> 0])

\* _calculate_complexity: analyze_node(ast, 1) on the metrics at zero
CalculateComplexity(tree) ==
    AnalyzeNode(tree, 1, [depth |-> 0, operations |-> 0, functions |-> 0, references |-> 0])

\* parse, from "Perform final validation" on
ParseReturn(a) ==
    LET validation_result == ValidateAst(a.tree)
    IN  IF ~validation_result.success THEN validation_result
        ELSE [success |-> TRUE, tree |-> a.tree,
              complexity |-> CalculateComplexity(a.tree),
              validation |-> validation_result]

(***************************************************************************)
(* analyze_dependencies.                                                   *)
(***************************************************************************)
\* _reference_pattern.findall(formula): the matches from left to right, the
\* search going on where the last match ended
RECURSIVE FindAllFrom(_, _)
FindAllFrom(s, p) ==
    IF p >= Len(s) THEN <<>>
    ELSE LET e == ReferenceMatch(s, p)
         IN  IF e # Fail THEN <<Slice(s, p, e)>> \o FindAllFrom(s, e)
             ELSE FindAllFrom(s, p + 1)

FindAll(s) == FindAllFrom(s, 0)

Contains(s, c) == \E i \in 1..Len(s) : s[i] = c

\* offset of the first c at or after p, Len(s) when there is none
RECURSIVE Find(_, _, _)
Find(s, c, p) == IF p < Len(s) /\ At(s, p) # c THEN Find(s, c, p + 1) ELSE p

\* str.split(c)
RECURSIVE Split(_, _)
Split(s, c) ==
    LET n == Find(s, c, 0)
    IN  IF n = Len(s) THEN <<s>>
        ELSE <<Slice(s, 0, n)>> \o Split(Slice(s, n + 1, Len(s)), c)

\* str.strip(c)
RECURSIVE Strip(_, _)
Strip(s, c) ==
    IF s # <<>> /\ s[1] = c THEN Strip(Tail(s), c)
    ELSE IF s # <<>> /\ s[Len(s)] = c THEN Strip(Front(s), c)
    ELSE s

\* a classification that keeps the quotes of the sheet name
ClassifyKeepingQuotes(ref, deps) ==
    IF Contains(ref, "!")
    THEN LET parts == Split(ref, "!")
         IN  IF Len(parts) # 2 THEN Raises("ValueError")
             ELSE [deps EXCEPT !.cross_sheet =
                      Append(@, [sheet |-> parts[1], reference |-> parts[2]])]
    ELSE [deps EXCEPT !.direct = Append(@, ref)]

\* the body of `for ref in references`: deps with ref recorded, or the
\* ValueError of unpacking a split that is not a pair
Classify(ref, deps) ==
    IF Contains(ref, "!")
    THEN LET parts == Split(ref, "!")
         IN  IF Len(parts) # 2 THEN Raises("ValueError")
             ELSE [deps EXCEPT !.cross_sheet =
                      Append(@, [sheet |-> Strip(parts[1], "'"), reference |-> parts[2]])]
    ELSE [deps EXCEPT !.direct = Append(@, ref)]

RECURSIVE ClassifyAll(_, _, _)
ClassifyAll(refs, i, deps) ==
    IF i > Len(refs) THEN deps
    ELSE LET d == Classify(refs[i], deps)
         IN  IF "raised" \in DOMAIN d THEN d ELSE ClassifyAll(refs, i + 1, d)

Range(s) == {s[i] : i \in 1..Len(s)}

\* the orders in which a set may be iterated
Orders(S) == {o \in [1..Cardinality(S) -> S] : Range(o) = S}

\* check_circular: st = [visited, circular]; a chain is '->'.join(path) + '->' + ref,
\* kept as the path set (joined in the set's iteration order) and the closing ref
RECURSIVE CheckCircular(_, _, _, _)
RECURSIVE CheckDependencies(_, _, _, _, _)
CheckCircular(map, ref, path, st) ==
    IF ref \in path
    THEN [st EXCEPT !.circular = Append(@, [path |-> path, ref |-> ref])]
    ELSE IF ref \in st.visited THEN st
    ELSE LET st1 == [st EXCEPT !.visited = @ \cup {ref}]
         IN  IF ref \in DOMAIN map
             THEN CheckDependencies(map, map[ref], 1, path \cup {ref}, st1)
             ELSE st1

CheckDependencies(map, deps, i, path, st) ==
    IF i > Len(deps) THEN st
    ELSE CheckDependencies(map, deps, i + 1, path, CheckCircular(map, deps[i], path, st))

RECURSIVE CheckAll(_, _, _, _)
CheckAll(map, order, i, st) ==
    IF i > Len(order) THEN st
    ELSE CheckAll(map, order, i + 1, CheckCircular(map, order[i], {}, st))

\* a detection that follows the first of the current references only
DetectFromFirstOnly(map, order) ==
    CheckAll(map, IF order = <<>> THEN <<>> ELSE <<order[1]>>, 1,
             [visited |-> {}, circular |-> <<>>]).circular

\* _detect_circular_references, current_refs iterated in `order`
DetectCircularReferences(map, order) ==
    CheckAll(map, order, 1, [visited |-> {}, circular |-> <<>>]).circular

\* '->'.join(path) + '->' + ref: the references of the path set in the order
\* the set is iterated in, then ref; the chain is kept as the sequence of the
\* references the arrows separate
ArrowJoin(order, ref) == order \o <<ref>>

\* the orders the path sets of the chains may be iterated in: one order for
\* each set (every path set is one object, joined wherever it is reported)
PathOrders(chains) ==
    LET paths == {chains[i].path : i \in 1..Len(chains)}
    IN  {f \in [paths -> UNION {Orders(q) : q \in paths}] : \A q \in paths : Range(f[q]) = q}

\* the list circular_refs for one choice of iteration orders
JoinChains(chains, f) == [i \in 1..Len(chains) |-> ArrowJoin(f[chains[i].path], chains[i].ref)]

EmptyDependencies ==
    [direct |-> <<>>, indirect |-> <<>>, circular |-> <<>>, cross_sheet |-> <<>>,
     validation |-> [success |-> TRUE, errors |-> <<>>]]

\* an analysis without the except clause: the exception leaves the call
AnalysisPropagates(exc) == Raises(exc)

\* the except clause: f'Dependency analysis failed: {str(e)}'
AnalysisFailed(exc) ==
    [direct |-> <<>>, indirect |-> <<>>, circular |-> <<>>, cross_sheet |-> <<>>,
     validation |-> [success |-> FALSE,
                     errors |-> <<[msg |-> "Dependency analysis failed", exc |-> exc]>>]]

\* the dictionaries analyze_dependencies may return for the text s
\* (findall raises TypeError for a formula that is not a text)
AnalyzeDependenciesResults(s, map) ==
    LET d == IF s = NotText THEN Raises("TypeError")
             ELSE ClassifyAll(FindAll(s), 1, EmptyDependencies)
    IN  IF "raised" \in DOMAIN d THEN {AnalysisFailed(d.exc)}
        ELSE UNION { LET chains == DetectCircularReferences(map, order)
                     IN  IF chains # <<>>
                         THEN { [d EXCEPT !.circular = JoinChains(chains, f),
                                          !.validation = [success |-> FALSE,
                                              errors |-> <<[msg |-> "Circular reference detected"]>>]]
                                : f \in PathOrders(chains) }
                         ELSE {d}
                     : order \in Orders(Range(d.direct)) }


(***************************************************************************)
(* The formula validator (utils/validation.py).                            *)
(***************************************************************************)
\* ValidationResult(is_valid, error_message, error_code): every failure has
\* the code ERROR_CODES['AI_003']; the text a message quotes is kept apart
\* in `about`
ValidationResult(is_valid, error_message, about) ==
    [is_valid |-> is_valid, error_message |-> error_message, about |-> about,
     error_code |-> IF is_valid THEN ""
                  ELSE "Invalid Input Format - Input data does not match required schema"]

Valid == ValidationResult(TRUE, "", <<>>)

Invalid(error_message, about) == ValidationResult(FALSE, error_message, about)

\* `.*$` from offset t: no line feed before the end of s but a last one
LineEnds(s, t) == \A i \in t..(Len(s) - 1) : At(s, i) = "\n" => i = Len(s) - 1

\* _syntax_pattern.match(s), ^\s*=\s*([^=].*$) : whitespace, '=', some of the
\* whitespace after it, a character that is not '=', the rest of the line
SyntaxPattern(s) ==
    LET p == RunLen(s, 0, Whitespace)
        w == RunLen(s, p + 1, Whitespace)
    IN  /\ Is(s, p, "=")
        /\ \E k \in 0..w :
              LET q == p + 1 + k
              IN  q < Len(s) /\ At(s, q) # "=" /\ LineEnds(s, q + 1)

\* brackets = {'(': ')', '[': ']', '{': '}'}
Brackets == ("(" :> ")") @@ ("[" :> "]") @@ ("{" :> "}")

ClosingBrackets == {Brackets[b] : b \in DOMAIN Brackets}

\* the loop `for char in formula` from offset i with the stack st, and the
\* check of the stack after it
RECURSIVE CheckBrackets(_, _, _)
CheckBrackets(s, i, st) ==
    IF i >= Len(s)
    THEN IF st # <<>> THEN Invalid("Unclosed brackets or parentheses", <<>>) ELSE Valid
    ELSE LET char == At(s, i)
         IN  IF char \in DOMAIN Brackets THEN CheckBrackets(s, i + 1, Append(st, char))
             ELSE IF char \in ClosingBrackets
             THEN IF st = <<>> \/ char # Brackets[Top(st)]
                  THEN Invalid("Unmatched brackets or parentheses", <<>>)
                  ELSE CheckBrackets(s, i + 1, Front(st))
             ELSE CheckBrackets(s, i + 1, st)

\* [\+\-\*/]
ArithmeticChars == {"+", "-", "*", "/"}

\* re.findall(r'[\+\-\*/]{2,}', formula) is not empty
InvalidOperators(s) ==
    \E p \in 0..(Len(s) - 2) : At(s, p) \in ArithmeticChars /\ At(s, p + 1) \in ArithmeticChars

\* the body of validate_syntax
ValidateSyntaxBody(f, max_formula_length) ==
    IF f = <<>> \/ Len(f) > max_formula_length
    THEN Invalid("Formula length exceeds maximum", <<>>)
    ELSE IF ~SyntaxPattern(f) THEN Invalid("Formula must start with '='", <<>>)
    ELSE LET brackets == CheckBrackets(f, 0, <<>>)
         IN  IF ~brackets.is_valid THEN brackets
             ELSE IF InvalidOperators(f)
             THEN Invalid("Invalid operator combination found", <<>>)
             ELSE Valid

\* @lru_cache(maxsize=1000): the calls remembered, least recently used first
LRU_MAXSIZE == 1000

CacheHit(cache, key) == \E i \in 1..Len(cache) : cache[i].key = key

CacheIndex(cache, key) == CHOOSE i \in 1..Len(cache) : cache[i].key = key

\* a lookup that takes the entry used last, whatever its key
CacheLookupLatest(cache, key) == cache[Len(cache)].value

CacheLookup(cache, key) == cache[CacheIndex(cache, key)].value

\* a hit makes the entry the most recently used
CacheTouch(cache, key) ==
    LET i == CacheIndex(cache, key)
    IN  SubSeq(cache, 1, i - 1) \o SubSeq(cache, i + 1, Len(cache)) \o <<cache[i]>>

\* a miss stores the result, dropping the least recently used entry of a full cache
CacheStore(cache, key, value) ==
    LET c == Append(cache, [key |-> key, value |-> value])
    IN  IF Len(c) > LRU_MAXSIZE THEN Tail(c) ELSE c

\* \$?[A-Za-z]{1,3}\$?\d+ matched at offset p: the offset where the match
\* ends, or Fail (a run of more than three letters cannot match at its start)
CellMatch(s, p) ==
    LET a == IF Is(s, p, "$") THEN p + 1 ELSE p
        n == RunLen(s, a, Letters)
        c == IF Is(s, a + n, "$") THEN a + n + 1 ELSE a + n
        d == RunLen(s, c, Digits)
    IN  IF n >= 1 /\ n <= 3 /\ d >= 1 THEN c + d ELSE Fail

\* the validator's _reference_pattern matched at offset p: a cell and, when
\* one follows, ':' and a second cell
RangeMatch(s, p) ==
    LET e == CellMatch(s, p)
    IN  IF e # Fail /\ Is(s, e, ":") /\ CellMatch(s, e + 1) # Fail
        THEN CellMatch(s, e + 1)
        ELSE e

\* self._reference_pattern.findall(formula)
RECURSIVE RangeFindAllFrom(_, _)
RangeFindAllFrom(s, p) ==
    IF p >= Len(s) THEN <<>>
    ELSE LET e == RangeMatch(s, p)
         IN  IF e # Fail THEN <<Slice(s, p, e)>> \o RangeFindAllFrom(s, e)
             ELSE RangeFindAllFrom(s, p + 1)

RangeFindAll(s) == RangeFindAllFrom(s, 0)

\* `$` : the end of the text, or the place before a line feed that ends it
EndOfText(s, p) == p = Len(s) \/ (p = Len(s) - 1 /\ At(s, p) = "\n")

\* a format that knows single cells only
ValidateSingleCellFormat(reference) ==
    CellMatch(reference, 0) # Fail /\ EndOfText(reference, CellMatch(reference, 0))

\* _validate_reference_format: ^(cell)(:cell)?$
ValidateReferenceFormat(reference) ==
    LET e == CellMatch(reference, 0)
    IN  /\ e # Fail
        /\ \/ EndOfText(reference, e)
           \/ /\ Is(reference, e, ":")
              /\ CellMatch(reference, e + 1) # Fail
              /\ EndOfText(reference, CellMatch(reference, e + 1))

Alphabet == <<"A","B","C","D","E","F","G","H","I","J","K","L","M",
              "N","O","P","Q","R","S","T","U","V","W","X","Y","Z">>

LowerAlphabet == <<"a","b","c","d","e","f","g","h","i","j","k","l","m",
                   "n","o","p","q","r","s","t","u","v","w","x","y","z">>

\* ord(char.upper()) - ord('A') + 1
LetterNumber(char) == CHOOSE i \in 1..26 : Alphabet[i] = char \/ LowerAlphabet[i] = char

\* str.upper()
ToUpper(s) == [i \in 1..Len(s) |-> IF s[i] \in Lower THEN Alphabet[LetterNumber(s[i])] ELSE s[i]]

\* _column_to_number: result = result * 26 + (ord(char) - ord('A') + 1)
RECURSIVE ColumnToNumber(_)
ColumnToNumber(column) ==
    IF column = <<>> THEN 0
    ELSE ColumnToNumber(Front(column)) * 26 + LetterNumber(Top(ToUpper(column)))

DecimalDigits == <<"0", "1", "2", "3", "4", "5", "6", "7", "8", "9">>

DigitValue(char) == (CHOOSE i \in 1..10 : DecimalDigits[i] = char) - 1

\* int(row)
RECURSIVE ToInt(_)
ToInt(digits) ==
    IF digits = <<>> THEN 0
    ELSE ToInt(Front(digits)) * 10 + DigitValue(Top(digits))

\* dict.get(key, default)
Get(dict, key, default) == IF key \in DOMAIN dict THEN dict[key] ELSE default

DEFAULT_MAX_ROWS == 1048576
DEFAULT_MAX_COLS == 16384

\* a bounds check that looks at the row only
ValidateRowBounds(reference, context) ==
    LET a == IF Is(reference, 0, "$") THEN 1 ELSE 0
        n == RunLen(reference, a, Letters)
        c == IF Is(reference, a + n, "$") THEN a + n + 1 ELSE a + n
        row_num == ToInt(Slice(reference, c, c + RunLen(reference, c, Digits)))
    IN  CellMatch(reference, 0) # Fail
           /\ 1 <= row_num /\ row_num <= Get(context, "max_rows", DEFAULT_MAX_ROWS)

\* _validate_reference_bounds: re.match(r'\$?([A-Za-z]{1,3})\$?(\d+)', reference)
\* takes the column and the row of the cell the reference starts with
ValidateReferenceBounds(reference, context) ==
    LET max_rows == Get(context, "max_rows", DEFAULT_MAX_ROWS)
        max_cols == Get(context, "max_cols", DEFAULT_MAX_COLS)
        a == IF Is(reference, 0, "$") THEN 1 ELSE 0
        n == RunLen(reference, a, Letters)
        c == IF Is(reference, a + n, "$") THEN a + n + 1 ELSE a + n
        col_num == ColumnToNumber(Slice(reference, a, a + n))
        row_num == ToInt(Slice(reference, c, c + RunLen(reference, c, Digits)))
    IN  IF CellMatch(reference, 0) = Fail THEN FALSE
        ELSE 1 <= row_num /\ row_num <= max_rows /\ 1 <= col_num /\ col_num <= max_cols

\* the loop `for ref in references` of validate_references, the set of
\* references iterated in `order`
RECURSIVE ValidateEachReference(_, _, _, _)
ValidateEachReference(order, i, context, existing_references) ==
    IF i > Len(order) THEN Valid
    ELSE LET ref == order[i]
         IN  IF ref \in existing_references
             THEN Invalid("Circular reference detected", ref)
             ELSE IF ~ValidateReferenceFormat(ref)
             THEN Invalid("Invalid cell reference format", ref)
             ELSE IF ~ValidateReferenceBounds(ref, context)
             THEN Invalid("Cell reference is out of worksheet bounds", ref)
             ELSE ValidateEachReference(order, i + 1, context, existing_references)

\* the results validate_references may return (sheet_name takes no part)
ValidateReferencesResults(f, context, existing_references) ==
    { ValidateEachReference(order, 1, context, existing_references)
      : order \in Orders(Range(RangeFindAll(f))) }

\* [A-Za-z_]
NameChars == Letters \cup {"_"}

\* the validator's _function_pattern ([A-Za-z_]+)\s*\( matched at offset p:
\* the offset where the match ends, or Fail; group 1 is the run of name
\* characters at p
FunctionCallMatch(s, p) ==
    LET n == RunLen(s, p, NameChars)
        w == RunLen(s, p + n, Whitespace)
    IN  IF n >= 1 /\ Is(s, p + n + w, "(") THEN p + n + w + 1 ELSE Fail

\* the offsets at which self._function_pattern.findall(formula) finds a call
RECURSIVE FunctionOffsetsFrom(_, _)
FunctionOffsetsFrom(s, p) ==
    IF p >= Len(s) THEN <<>>
    ELSE LET m == FunctionCallMatch(s, p)
         IN  IF m # Fail THEN <<p>> \o FunctionOffsetsFrom(s, m)
             ELSE FunctionOffsetsFrom(s, p + 1)

\* self._function_pattern.findall(formula): the names (group 1) of the calls
FunctionFindAll(s) ==
    LET offsets == FunctionOffsetsFrom(s, 0)
    IN  [k \in 1..Len(offsets) |->
            Slice(s, offsets[k], offsets[k] + RunLen(s, offsets[k], NameChars))]

\* str.find(sub): the offset of the first occurrence of sub at or after p, or -1
RECURSIVE FindText(_, _, _)
FindText(s, sub, p) ==
    IF p + Len(sub) > Len(s) THEN Fail
    ELSE IF Slice(s, p, p + Len(sub)) = sub THEN p
    ELSE FindText(s, sub, p + 1)

\* _find_closing_parenthesis from offset i of text, count parentheses open
RECURSIVE FindClosingParenthesis(_, _, _)
FindClosingParenthesis(text, i, count) ==
    IF i >= Len(text) THEN Fail
    ELSE IF At(text, i) = "(" THEN FindClosingParenthesis(text, i + 1, count + 1)
    ELSE IF At(text, i) = ")"
    THEN IF count - 1 = -1 THEN i ELSE FindClosingParenthesis(text, i + 1, count - 1)
    ELSE FindClosingParenthesis(text, i + 1, count)

\* str.strip()
RECURSIVE StripWhitespace(_)
StripWhitespace(s) ==
    IF s # <<>> /\ s[1] \in Whitespace THEN StripWhitespace(Tail(s))
    ELSE IF s # <<>> /\ s[Len(s)] \in Whitespace THEN StripWhitespace(Front(s))
    ELSE s

\* _parse_function_arguments: the loop from offset i, and the last argument
RECURSIVE ParseFunctionArguments(_, _, _, _, _, _)
ParseFunctionArguments(args_str, i, args, current_arg, paren_count, in_quotes) ==
    IF i >= Len(args_str)
    THEN IF current_arg # <<>> THEN Append(args, StripWhitespace(current_arg)) ELSE args
    ELSE LET char == At(args_str, i)
         IN  IF char = "\""
             THEN ParseFunctionArguments(args_str, i + 1, args, Append(current_arg, char),
                                         paren_count, ~in_quotes)
             ELSE IF ~in_quotes /\ char = "("
             THEN ParseFunctionArguments(args_str, i + 1, args, Append(current_arg, char),
                                         paren_count + 1, in_quotes)
             ELSE IF ~in_quotes /\ char = ")"
             THEN ParseFunctionArguments(args_str, i + 1, args, Append(current_arg, char),
                                         paren_count - 1, in_quotes)
             ELSE IF ~in_quotes /\ char = "," /\ paren_count = 0
             THEN ParseFunctionArguments(args_str, i + 1,
                                         Append(args, StripWhitespace(current_arg)), <<>>,
                                         paren_count, in_quotes)
             ELSE ParseFunctionArguments(args_str, i + 1, args, Append(current_arg, char),
                                         paren_count, in_quotes)

\* the argument list that starts at offset args_start of f: whether a
\* parenthesis closes it (args_end is not -1) and, if so, its arguments
ArgumentsAt(f, args_start) ==
    LET rest     == Slice(f, args_start, Len(f))
        args_end == FindClosingParenthesis(rest, 0, 0)
    IN  IF args_end = Fail THEN [closed |-> FALSE, args |-> <<>>]
        ELSE [closed |-> TRUE,
              args |-> ParseFunctionArguments(Slice(rest, 0, args_end), 0, <<>>, <<>>,
                                              0, FALSE)]

\* len(args) < min_args or len(args) > max_args (no max_args: no upper limit)
CountOutside(args, function_spec) ==
    \/ Len(args) < Get(function_spec, "min_args", 0)
    \/ "max_args" \in DOMAIN function_spec /\ Len(args) > function_spec["max_args"]

\* _validate_function_arguments; `not function_spec` holds for no spec and
\* for an empty one
ValidateFunctionArguments(f, function_name, functions) ==
    LET function_spec == Get(functions, ToUpper(function_name), <<>>)
        args_start == FindText(f, function_name \o <<"(">>, 0) + Len(function_name) + 1
        found == ArgumentsAt(f, args_start)
    IN  IF DOMAIN function_spec = {} THEN Valid
        ELSE IF ~found.closed
        THEN Invalid("Invalid argument structure for function", function_name)
        ELSE IF CountOutside(found.args, function_spec)
        THEN Invalid("Invalid number of arguments for function", function_name)
        ELSE Valid

\* the loop `for func in functions` of validate_functions
RECURSIVE ValidateEachFunction(_, _, _, _)
ValidateEachFunction(f, names, i, functions) ==
    IF i > Len(names) THEN Valid
    ELSE IF ToUpper(names[i]) \notin DOMAIN functions
    THEN Invalid("Invalid or unsupported function", names[i])
    ELSE LET arg_validation == ValidateFunctionArguments(f, names[i], functions)
         IN  IF ~arg_validation.is_valid THEN arg_validation
             ELSE ValidateEachFunction(f, names, i + 1, functions)

ValidateFunctions(f, functions) == ValidateEachFunction(f, FunctionFindAll(f), 1, functions)

\* _validate_formula_complexity: the deepest nesting of '(' met in the text
RECURSIVE MaxDepth(_, _, _, _)
MaxDepth(f, i, depth, max_depth) ==
    IF i >= Len(f) THEN max_depth
    ELSE IF At(f, i) = "(" THEN MaxDepth(f, i + 1, depth + 1, Max(max_depth, depth + 1))
    ELSE IF At(f, i) = ")" THEN MaxDepth(f, i + 1, depth - 1, max_depth)
    ELSE MaxDepth(f, i + 1, depth, max_depth)

MAX_NESTING_DEPTH == 7

\* a complexity check that rejects the deepest nesting it should allow
CheckSemanticValidityAtLimit(f, context) ==
    IF MaxDepth(f, 0, 0, 0) >= MAX_NESTING_DEPTH
    THEN Invalid("Formula exceeds maximum recommended nesting depth", <<>>)
    ELSE IF Get(context, "locale", "en-US") \in {"de-DE", "fr-FR"} /\ Contains(f, ".")
    THEN Invalid("Invalid decimal separator for locale", <<>>)
    ELSE Valid

\* check_semantic_validity: data types (always valid), complexity, locale
CheckSemanticValidity(f, context) ==
    IF MaxDepth(f, 0, 0, 0) > MAX_NESTING_DEPTH
    THEN Invalid("Formula exceeds maximum recommended nesting depth", <<>>)
    ELSE IF Get(context, "locale", "en-US") \in {"de-DE", "fr-FR"} /\ Contains(f, ".")
    THEN Invalid("Invalid decimal separator for locale", <<>>)
    ELSE Valid

\* FormulaController._validate_formula after the syntax check: references
\* (no existing references), functions, semantics
ValidateFormulaResults(f, context, functions, locale) ==
    { IF ~reference_result.is_valid THEN reference_result
      ELSE IF ~ValidateFunctions(f, functions).is_valid THEN ValidateFunctions(f, functions)
      ELSE IF ~CheckSemanticValidity(f, [locale |-> locale]).is_valid
      THEN CheckSemanticValidity(f, [locale |-> locale])
      ELSE Valid
      : reference_result \in ValidateReferencesResults(f, context, {}) }

(***************************************************************************)
(* The texts explored: every concatenation of at most MaxChunks chunks of  *)
(* three small alphabets (parser, tokenizer, sheet references), the infix  *)
(* chains 1 op 2 op 3 ... of at most MaxOps operators, the calls of at     *)
(* most MaxArgs arguments, and the formulas the documentation names.       *)
(***************************************************************************)
RECURSIVE Flatten(_)
Flatten(ss) == IF ss = <<>> THEN <<>> ELSE Head(ss) \o Flatten(Tail(ss))

SeqsUpTo(S, n) == UNION {[1..k -> S] : k \in 0..n}

ParserChunks == {<<"1">>, <<"+">>, <<"(">>, <<")">>, <<",">>, <<"S", "(">>}

TokenizerChunks == {<<"A", "1">>, <<"B">>, <<"(">>, <<":">>, <<" ">>, <<"\"">>}

SheetChunks == {<<"A", "1">>, <<"B">>, <<" ">>, <<"!">>, <<"'">>, <<":">>}

ChunkFormulas(Chunks) == {<<"=">> \o Flatten(cs) : cs \in SeqsUpTo(Chunks, MaxChunks)}

InfixOps == {<<"=">>, <<">">>, <<"+">>, <<"-">>, <<"*">>, <<"/">>, <<"^">>, <<"&">>,
             <<"<", ">">>}

DigitOf(i) == <<"1", "2", "3", "4", "5", "6", "7", "8", "9">>[i]

RECURSIVE Chain(_, _)
Chain(ops, i) ==
    IF i > Len(ops) THEN <<>> ELSE ops[i] \o <<DigitOf(i + 1)>> \o Chain(ops, i + 1)

InfixFormulas == {<<"=", "1">> \o Chain(ops, 1) : ops \in SeqsUpTo(InfixOps, MaxOps)}

ArgTexts == {<<"1">>, <<"A", "1">>, <<"1", "+", "2">>, <<"(", "1", ")">>,
             <<"S", "(", "1", ")">>}

RECURSIVE Join(_, _)
Join(ss, i) ==
    IF i > Len(ss) THEN <<>>
    ELSE (IF i > 1 THEN <<",">> ELSE <<>>) \o ss[i] \o Join(ss, i + 1)

CallFormulas ==
    {<<"=", "F", "(">> \o Join(args, 1) \o <<")">> : args \in SeqsUpTo(ArgTexts, MaxArgs)}

Examples ==
    { <<>>,
      <<"S","U","M","(","A","1",":","A","1","0",")">>,
      <<"=","S","U","M","(","A","1",":","A","1","0",")">>,
      <<"=","S","U","M","(","A","1",",","B","2",")">>,
      <<"=","S","U","M","(",")">>,
      <<"=","2","+","3","*","4">>,
      <<"=","-","A","1">>,
      <<"=","(","1",",","2",")">>,
      <<"=","1",".","5","+","\"","a"," ","b","\"">>,
      <<"=","1","#">>,
      <<"=","$","A","$","1",":","$","B","$","2">>,
      <<"=","S","h","e","e","t","2","!","B","2","+","A","1">>,
      <<"=","'","M","y"," ","S","'","!","A","1",":","B","2">>,
      <<"=","A","1","+","A","1">> }

Inputs ==
    ChunkFormulas(ParserChunks) \cup ChunkFormulas(TokenizerChunks)
        \cup ChunkFormulas(SheetChunks) \cup InfixFormulas \cup CallFormulas \cup Examples

\* the dependency maps the parser is constructed with (default_factory=dict,
\* or a map given to the constructor): some of three references mapped to at
\* most MaxDeps of them each
MapReferences == {<<"A","1">>, <<"B","2">>, <<"C","3">>}

DependencyMaps ==
    UNION {[keys -> SeqsUpTo(MapReferences, MaxDeps)] : keys \in SUBSET MapReferences}

\* the formulas analysed with a populated map
DependencyFormulas ==
    { <<"=","S","U","M","(","A","1",",","B","2",")">>,
      <<"=","S","h","e","e","t","2","!","B","2","+","A","1">>,
      <<"=","A","1","+","A","1">> }

\* the parsers constructed and the arguments they are called with
Cases ==
    ((Inputs \cup {NotText}) \X {<<>>}) \cup (DependencyFormulas \X DependencyMaps)

(***************************************************************************)
(* The state machine: a parser is constructed, and parse or                *)
(* analyze_dependencies is called on a text.                               *)
(***************************************************************************)
\* no Formula is constructed
ModelInit ==
    /\ formula_obj = None
    /\ returned = [op |-> "none"]

\* nothing has been called on the parser
ParserInit ==
    /\ pc = "idle"
    /\ formula = <<>>
    /\ current_pos = 0
    /\ tokens = <<>>
    /\ tok_idx = 0
    /\ stack = <<>>
    /\ output = <<>>
    /\ ast = None
    /\ result = None
    /\ dependencies = None

Init ==
    /\ \E c \in Cases : input = c[1] /\ dependency_map = c[2]
    /\ ParserInit
    /\ ModelInit
    /\ validation_context = <<>>
    /\ valid_functions = <<>>
    /\ syntax_cache = <<>>
    /\ called = [op |-> "none"]
    /\ validator_result = None

\* parse, up to the call of tokenize
Parse ==
    /\ pc = "idle"
    /\ LET f == IF input # <<>> /\ input[1] = "=" THEN input ELSE <<"=">> \o input
       IN  IF input = <<>> \/ input = NotText
           THEN /\ result' = InvalidInput
                /\ pc' = "done"
                /\ UNCHANGED <<formula, current_pos>>
           ELSE IF Len(f) > MAX_FORMULA_LENGTH
           THEN /\ result' = LengthExceeded
                /\ pc' = "done"
                /\ formula' = f
                /\ UNCHANGED current_pos
           ELSE /\ formula' = f
                /\ pc' = "tokenize"
                /\ current_pos' = 1
                /\ UNCHANGED result
    /\ UNCHANGED <<model_vars, validator_vars, input, tokens, tok_idx, stack, output, ast, dependency_map,
                   dependencies>>

\* tokenize: one iteration of `while current_pos < formula_len`; a failure
\* is returned to parse, which returns it
TokenizeStep ==
    /\ pc = "tokenize"
    /\ current_pos < Len(formula)
    /\ LET it == TokenizeIteration(formula, current_pos, tokens)
       IN  IF it.returned
           THEN /\ result' = it.value
                /\ pc' = "done"
                /\ current_pos' = it.current_pos
                /\ UNCHANGED tokens
           ELSE /\ current_pos' = it.current_pos
                /\ tokens' = it.tokens
                /\ UNCHANGED <<result, pc>>
    /\ UNCHANGED <<model_vars, validator_vars, input, formula, tok_idx, stack, output, ast, dependency_map,
                   dependencies>>

\* tokenize returns its tokens and parse calls build_ast
TokenizeReturn ==
    /\ pc = "tokenize"
    /\ current_pos >= Len(formula)
    /\ pc' = "build_ast"
    /\ tok_idx' = 1
    /\ stack' = <<>>
    /\ output' = <<>>
    /\ UNCHANGED <<model_vars, validator_vars, input, formula, current_pos, tokens, ast, result,
                   dependency_map, dependencies>>

\* build_ast: one iteration of `for token in tokens`; a failure dictionary
\* (returned, or made of an exception) is returned by parse
BuildAstStep ==
    /\ pc = "build_ast"
    /\ tok_idx <= Len(tokens)
    /\ LET r == BuildAstToken(tokens[tok_idx], stack, output)
           a == IF r.raised THEN BuildAstExcept(r.exc) ELSE r.value
       IN  IF r.raised \/ r.returned
           THEN /\ ast' = a
                /\ result' = a
                /\ pc' = "done"
                /\ UNCHANGED <<tok_idx, stack, output>>
           ELSE /\ stack' = r.stack
                /\ output' = r.output
                /\ tok_idx' = tok_idx + 1
                /\ UNCHANGED <<ast, result, pc>>
    /\ UNCHANGED <<model_vars, validator_vars, input, formula, current_pos, tokens, dependency_map,
                   dependencies>>

\* build_ast after the loop: the stack is emptied and the tree built
BuildAstFinish ==
    /\ pc = "build_ast"
    /\ tok_idx > Len(tokens)
    /\ LET r == EmptyStack(stack, output)
           a == IF r.returned THEN r.value ELSE BuildAstReturn(r.output)
       IN  /\ ast' = a
           /\ IF r.returned THEN UNCHANGED <<stack, output>>
              ELSE stack' = r.stack /\ output' = r.output
           /\ IF a.success THEN pc' = "validate" /\ UNCHANGED result
              ELSE pc' = "done" /\ result' = a
    /\ UNCHANGED <<model_vars, validator_vars, input, formula, current_pos, tokens, tok_idx,
                   dependency_map, dependencies>>

\* parse: _validate_ast, _calculate_complexity and the return
ParseFinish ==
    /\ pc = "validate"
    /\ result' = ParseReturn(ast)
    /\ pc' = "done"
    /\ UNCHANGED <<model_vars, validator_vars, input, formula, current_pos, tokens, tok_idx, stack, output,
                   ast, dependency_map, dependencies>>

\* analyze_dependencies(input, sheet_name); sheet_name takes no part in the result
AnalyzeDependencies ==
    /\ pc = "idle"
    /\ dependencies' \in AnalyzeDependenciesResults(input, dependency_map)
    /\ pc' = "analyzed"
    /\ UNCHANGED <<model_vars, validator_vars, input, formula, current_pos, tokens, tok_idx, stack, output,
                   ast, result, dependency_map>>

Next ==
    \/ Parse
    \/ TokenizeStep
    \/ TokenizeReturn
    \/ BuildAstStep
    \/ BuildAstFinish
    \/ ParseFinish
    \/ AnalyzeDependencies

Spec == Init /\ [][Next]_vars

\* tokenize alone, as parse calls it on the texts of at most MaxScanChunks
\* chunks of the tokenizer's alphabet, on the empty text and on a text
\* without '='; the loop runs on while it can: a step that can be taken is
\* taken
ScanFormulas ==
    {<<"=">> \o Flatten(cs) : cs \in SeqsUpTo(TokenizerChunks, MaxScanChunks)}
        \cup {<<>>, <<"A", "1">>}

ScanInit ==
    /\ input \in ScanFormulas
    /\ dependency_map = <<>>
    /\ ParserInit
    /\ ModelInit
    /\ validation_context = <<>>
    /\ valid_functions = <<>>
    /\ syntax_cache = <<>>
    /\ called = [op |-> "none"]
    /\ validator_result = None

ScanNext ==
    \/ Parse
    \/ TokenizeStep
    \/ TokenizeReturn

ScanSpec == ScanInit /\ [][ScanNext]_vars /\ WF_vars(ScanNext)

(***************************************************************************)
(* The validator: a FormulaValidator is constructed (by the controller, or *)
(* with another context and function table) and its checks are called, in *)
(* any order and any number of times, on a formula and on another text.    *)
(***************************************************************************)
\* the texts explored by the syntax check: how a text starts and where its
\* lines end, how its brackets pair, which operators follow one another
StartChunks == {<<"=">>, <<"1">>, <<" ">>, <<"\n">>}

BracketChunks == {<<"(">>, <<")">>, <<"[">>, <<"]">>, <<"1">>}

OperatorChunks == {<<"1">>, <<"+">>, <<"*">>, <<" ">>}

SyntaxFormulas ==
    {Flatten(cs) : cs \in SeqsUpTo(StartChunks, MaxChunks)}
        \cup ChunkFormulas(BracketChunks) \cup ChunkFormulas(OperatorChunks)

\* the references explored: cells and ranges at the edges of the worksheet
ReferenceColumns == {<<"A">>, <<"Z">>, <<"A","A">>, <<"X","F","D">>, <<"X","F","E">>}

ReferenceRows ==
    {<<"0">>, <<"1">>, <<"9","9">>, <<"1","0","4","8","5","7","6">>,
     <<"1","0","4","8","5","7","7">>}

ReferenceCells == {col \o row : col \in ReferenceColumns, row \in ReferenceRows}

\* the cells a range ends with
ReferenceEnds ==
    {<<"A","1">>, <<"A","0">>, <<"X","F","E","1">>,
     <<"X","F","D","1","0","4","8","5","7","7">>}

ReferenceFormulas ==
    {<<"=">> \o cell : cell \in ReferenceCells}
        \cup {<<"=">> \o a \o <<":">> \o b : a \in ReferenceCells, b \in ReferenceEnds}

ReferenceChunks == {<<"A">>, <<"z","z">>, <<"1">>, <<"$">>, <<":">>}

FunctionChunks == {<<"S","U","M","(">>, <<"D","S","U","M","(">>, <<"1">>, <<",">>, <<")">>}

\* n times the character c
Repeat(c, n) == [i \in 1..n |-> c]

\* a number in n pairs of parentheses
Nested(n) == <<"=">> \o Repeat("(", n) \o <<"1">> \o Repeat(")", n)

\* formulas around the nesting limit: 6 to 9 levels, with and without a
\* decimal point, as many parentheses without the depth, and unclosed ones
NestingFormulas ==
    {Nested(n) : n \in 6..9}
        \cup {<<"=">> \o Repeat("(", n) \o <<"1", ".", "5">> \o Repeat(")", n) : n \in 7..8}
        \cup {<<"=">> \o Repeat("(", 4) \o <<"1">> \o Repeat(")", 4) \o <<"+">>
                  \o Repeat("(", 4) \o <<"2">> \o Repeat(")", 4),
              <<"=">> \o Repeat("(", 7) \o <<")", "(", "1">> \o Repeat(")", 7),
              <<"=">> \o Repeat("(", 8),
              <<"=", ")">> \o Repeat("(", 8) \o <<"1">> \o Repeat(")", 7)}

ValidatorExamples ==
    { <<"S","U","M","(","A","1",":","A","1","0",")">>,
      <<"=","S","U","M","(","A","1",":","A","1","0",")">>,
      <<"=","S","U","M","(","I","F","(","A","1",":","A","1","0",">","0",",",
        "B","1",":","B","1","0",",","0",")",")">>,
      <<"=","S","U","M","(",")">>,
      <<"=","S","U","M","(","1",")","+","S","U","M","(",")">>,
      <<"=","D","S","U","M","(","1",",","1",")","+","S","U","M","(",")">>,
      <<"=","S","U","M"," ","(","1",")">>,
      <<"=","s","u","m","(",")">>,
      <<"=","S","U","M","(","\"",",","\"",")">>,
      <<"=","A","1","+","B","1">>,
      <<"=","1",".","5","+","2">>,
      <<"=","{","1","}","+","[","(","2",")","]">>,
      <<"=","1","*","-","2">> }

\* the contexts a validator is constructed with: the controller's, an empty
\* one and a small worksheet
ControllerContext == [max_rows |-> 1048576, max_cols |-> 16384]

SmallContext == [max_rows |-> 99, max_cols |-> 26]

\* FORMULA_GENERATION.get('VALID_FUNCTIONS', {}): the constants define none
DefaultFunctions == <<>>

SumFunctions == <<"S","U","M">> :> [min_args |-> 1, max_args |-> 255]

StandardFunctions ==
    (<<"S","U","M">> :> [min_args |-> 1, max_args |-> 255])
        @@ (<<"D","S","U","M">> :> [min_args |-> 2, max_args |-> 3])
        @@ (<<"I","F">> :> <<>>)

Case(f, context, functions) == [formula |-> f, context |-> context, functions |-> functions]

ValidatorCases ==
    {Case(f, ControllerContext, DefaultFunctions) : f \in SyntaxFormulas}
        \cup {Case(f, context, DefaultFunctions) :
                f \in ReferenceFormulas, context \in {ControllerContext, <<>>, SmallContext}}
        \cup {Case(f, SmallContext, DefaultFunctions) : f \in ChunkFormulas(ReferenceChunks)}
        \cup {Case(f, ControllerContext, StandardFunctions) : f \in ChunkFormulas(FunctionChunks)}
        \cup {Case(f, ControllerContext, DefaultFunctions) : f \in NestingFormulas}
        \cup {Case(f, ControllerContext, functions) :
                f \in ValidatorExamples,
                functions \in {DefaultFunctions, SumFunctions, StandardFunctions}}

\* the other text whose syntax is validated in between
OtherFormulas == {<<"1">>}

ExistingReferences == {{}, {<<"A","1">>}}

Locales == {"en-US", "de-DE"}

NoCall == [op |-> "none"]

Call(op, f, argument) == [op |-> op, formula |-> f, argument |-> argument]

ValidatorInit ==
    /\ \E c \in ValidatorCases :
          /\ input = c.formula
          /\ validation_context = c.context
          /\ valid_functions = c.functions
    /\ syntax_cache = <<>>
    /\ called = NoCall
    /\ validator_result = None
    /\ ParserInit
    /\ ModelInit
    /\ dependency_map = <<>>

\* a call of the memoised validate_syntax, as the cache before it says: a
\* hit returns the cached result, a miss runs the body and stores its result
MemoisedSyntax(cache, f) ==
    IF CacheHit(cache, f)
    THEN [result |-> CacheLookup(cache, f), cache |-> CacheTouch(cache, f), hit |-> TRUE]
    ELSE LET r == ValidateSyntaxBody(f, MAX_FORMULA_LENGTH)
         IN  [result |-> r, cache |-> CacheStore(cache, f, r), hit |-> FALSE]

\* validate_syntax(f)
ValidateSyntax ==
    /\ \E f \in {input} \cup OtherFormulas :
          LET m == MemoisedSyntax(syntax_cache, f)
          IN  /\ validator_result' = m.result
              /\ syntax_cache' = m.cache
              /\ called' = Call("validate_syntax", f, m.hit)
    /\ UNCHANGED <<model_vars, input, parser_vars, validation_context, valid_functions>>

\* validate_references(input, sheet_name, existing_references)
ValidateReferences ==
    /\ \E existing_references \in ExistingReferences :
          /\ validator_result' \in
                ValidateReferencesResults(input, validation_context, existing_references)
          /\ called' = Call("validate_references", input, existing_references)
    /\ UNCHANGED <<model_vars, input, parser_vars, validation_context, valid_functions, syntax_cache>>

\* validate_functions(input)
ValidateFunctionsCall ==
    /\ validator_result' = ValidateFunctions(input, valid_functions)
    /\ called' = Call("validate_functions", input, <<>>)
    /\ UNCHANGED <<model_vars, input, parser_vars, validation_context, valid_functions, syntax_cache>>

\* check_semantic_validity(input, {'locale': locale})
CheckSemanticValidityCall ==
    /\ \E locale \in Locales :
          /\ validator_result' = CheckSemanticValidity(input, [locale |-> locale])
          /\ called' = Call("check_semantic_validity", input, locale)
    /\ UNCHANGED <<model_vars, input, parser_vars, validation_context, valid_functions, syntax_cache>>

\* FormulaController._validate_formula(Formula(input), sheet_name, "en-US"),
\* as validate_formula calls it: the first check that fails is returned
ValidateFormula ==
    /\ LET m == MemoisedSyntax(syntax_cache, input)
       IN  /\ syntax_cache' = m.cache
           /\ IF ~m.result.is_valid
              THEN validator_result' = m.result
              ELSE validator_result' \in
                      ValidateFormulaResults(input, validation_context, valid_functions, "en-US")
    /\ called' = Call("_validate_formula", input, "en-US")
    /\ UNCHANGED <<model_vars, input, parser_vars, validation_context, valid_functions>>

ValidatorNext ==
    \/ ValidateSyntax
    \/ ValidateReferences
    \/ ValidateFunctionsCall
    \/ CheckSemanticValidityCall
    \/ ValidateFormula

ValidatorSpec == ValidatorInit /\ [][ValidatorNext]_vars

(***************************************************************************)
(* The tree checks: _validate_ast and _calculate_complexity are called on  *)
(* a tree.  The trees are those of at most three levels over a few leaves: *)
(* operands, a leaf of a type the parser does not know, and nodes with a   *)
(* part missing.                                                           *)
(***************************************************************************)
Operands ==
    { [type |-> "number", value |-> <<"1">>],
      [type |-> "reference", value |-> <<"A", "1">>],
      [type |-> "string", value |-> <<"\"", "a", "\"">>] }

UnknownLeaves == { [type |-> "formula", value |-> <<"1">>] }

Malformed ==
    { None,
      [value |-> <<"1">>],
      [type |-> "operation", operator |-> <<"+">>],
      [type |-> "function", name |-> <<"F">>] }

Level0 == Operands \cup UnknownLeaves \cup Malformed

Level1 ==
    {Operation(<<"+">>, l, r) : l \in Level0, r \in Level0}
        \cup {Function(<<"F">>, args) : args \in SeqsUpTo(Level0, 2)}

Level2 ==
    {Operation(<<"*">>, l, r) :
        l \in {Operation(<<"+">>, a, b) : a \in Operands, b \in Operands \cup UnknownLeaves},
        r \in Operands \cup UnknownLeaves \cup {Function(<<"F">>, <<a>>) : a \in Level0}}
        \cup {Function(<<"G">>, <<a, Function(<<"F">>, <<b, c>>)>>) :
                 a \in Operands, b \in Operands, c \in Operands \cup UnknownLeaves}

Trees == Level0 \cup Level1 \cup Level2

AstInit ==
    /\ input \in Trees
    /\ ParserInit
    /\ ModelInit
    /\ dependency_map = <<>>
    /\ validation_context = <<>>
    /\ valid_functions = <<>>
    /\ syntax_cache = <<>>
    /\ called = NoCall
    /\ validator_result = None

\* _validate_ast(input)
ValidateAstCall ==
    /\ pc = "idle"
    /\ result' = ValidateAst(input)
    /\ pc' = "validated"
    /\ UNCHANGED <<model_vars, validator_vars, input, formula, current_pos, tokens, tok_idx, stack, output,
                   ast, dependency_map, dependencies>>

\* _calculate_complexity(input), as parse calls it: on a tree that
\* _validate_ast has passed
CalculateComplexityCall ==
    /\ pc = "idle"
    /\ ValidateAst(input).success
    /\ result' = CalculateComplexity(input)
    /\ pc' = "measured"
    /\ UNCHANGED <<model_vars, validator_vars, input, formula, current_pos, tokens, tok_idx, stack, output,
                   ast, dependency_map, dependencies>>

AstNext ==
    \/ ValidateAstCall
    \/ CalculateComplexityCall

AstSpec == AstInit /\ [][AstNext]_vars

(***************************************************************************)
(* parse as one call: what the steps above return in the end.              *)
(***************************************************************************)
\* F of x, x worked out once
Then(x, F(_)) == CHOOSE y \in {F(v) : v \in {x}} : TRUE

\* tokenize from offset p with the tokens built so far
RECURSIVE TokenizeFrom(_, _, _)
TokenizeFrom(s, p, toks) ==
    LET Rest(it) == IF it.returned THEN it.value
                    ELSE TokenizeFrom(s, it.current_pos, it.tokens)
    IN  IF p >= Len(s) THEN [success |-> TRUE, tokens |-> toks]
        ELSE Then(TokenizeIteration(s, p, toks), Rest)

\* build_ast from the i-th token with its stack and output queue
RECURSIVE BuildAstFrom(_, _, _, _)
BuildAstFrom(toks, i, st, out) ==
    LET Emptied(r) == IF r.returned THEN r.value ELSE BuildAstReturn(r.output)
        Rest(r) == IF r.raised THEN BuildAstExcept(r.exc)
                   ELSE IF r.returned THEN r.value
                   ELSE BuildAstFrom(toks, i + 1, r.stack, r.output)
    IN  IF i > Len(toks) THEN Then(EmptyStack(st, out), Emptied)
        ELSE Then(BuildAstToken(toks[i], st, out), Rest)

\* parse(text)
ParseResult(text) ==
    LET f == IF text # <<>> /\ text[1] = "=" THEN text ELSE <<"=">> \o text
        Built(a) == IF ~a.success THEN a ELSE ParseReturn(a)
        Scanned(t) == IF ~t.success THEN t
                      ELSE Then(BuildAstFrom(t.tokens, 1, <<>>, <<>>), Built)
    IN  IF text = <<>> \/ text = NotText THEN InvalidInput
        ELSE IF Len(f) > MAX_FORMULA_LENGTH THEN LengthExceeded
        ELSE Then(TokenizeFrom(f, 1, <<>>), Scanned)

(***************************************************************************)
(* The Formula model (models/formula_model.py): a Formula is constructed   *)
(* from an expression, a sheet name and a confidence score (in             *)
(* hundredths), and validate is called on it.                              *)
(***************************************************************************)
\* the characters with ord(char) >= 128, each written by its code point
NonAscii == {"U+00E9"}

IsAscii(char) == char \notin NonAscii

\* ' '.join(formula.split()): the words of the text, one space between them
NormalizeWhitespace(f) ==
    LET Word(i) == f[i] \notin Whitespace
        Kept(i) == \/ Word(i)
                   \/ /\ i > 1 /\ Word(i - 1)
                      /\ \E j \in (i + 1)..Len(f) : Word(j)
        marked  == [i \in 1..Len(f) |->
                       IF ~Kept(i) THEN "" ELSE IF Word(i) THEN f[i] ELSE " "]
        IsKept(c) == c # ""
    IN  SelectSeq(marked, IsKept)

\* _sanitize_formula: '=' put in front, the characters over 127 taken out,
\* the whitespace normalized
SanitizeFormula(f) ==
    LET with_equals == IF f # <<>> /\ f[1] = "=" THEN f ELSE <<"=">> \o f
    IN  NormalizeWhitespace(SelectSeq(with_equals, IsAscii))

ValueError(msg) == [raised |-> TRUE, returned |-> FALSE, exc |-> "ValueError", msg |-> msg]

\* the fields of a Formula after __post_init__
NewFormula(expression, sheet_name, confidence_score) ==
    [expression |-> expression,
     sheet_name |-> sheet_name,
     confidence_score |-> confidence_score,
     ast |-> <<>>,
     dependencies |-> <<>>,
     validation_cache |-> [last_validated |-> None, validation_result |-> None,
                           ast_cache |-> None],
     optimization_metrics |-> [original_length |-> Len(expression)],
     validation_errors |-> <<>>]

\* Formula(expression, sheet_name, confidence_score): __post_init__
PostInit(args) ==
    IF args.expression = <<>> \/ args.expression = NotText
    THEN ValueError("Formula expression must be a non-empty string")
    ELSE IF args.sheet_name = ""
    THEN ValueError("Sheet name must be a non-empty string")
    ELSE IF Len(args.expression) > MAX_FORMULA_LENGTH
    THEN ValueError("Formula exceeds maximum length")
    ELSE IF args.confidence_score < MIN_CONFIDENCE_SCORE
    THEN ValueError("Confidence score below minimum threshold")
    ELSE Returns(NewFormula(SanitizeFormula(args.expression), args.sheet_name,
                            args.confidence_score))

\* the except clause of validate: f"Validation error: {str(e)}"
ValidationError(exc, key) == [msg |-> "Validation error", exc |-> exc, key |-> key]

\* Formula.validate: the Formula after the call and the value returned, for
\* each result analyze_dependencies may give
Validate(obj) ==
    IF obj.validation_cache.validation_result # None
    THEN {[obj |-> obj, value |-> obj.validation_cache.validation_result]}
    ELSE LET parse_result == ParseResult(obj.expression)
             errors == obj.validation_errors
         IN  IF ~parse_result.success
             THEN IF ~Has(parse_result, {"details"})
                  THEN {[obj |-> [obj EXCEPT !.validation_errors =
                                      Append(errors, ValidationError("KeyError", "details"))],
                         value |-> <<FALSE, "AI_002">>]}
                  ELSE IF ~Has(parse_result, {"error"})
                  THEN {[obj |-> [obj EXCEPT !.validation_errors =
                                      errors \o <<parse_result.details,
                                                  ValidationError("KeyError", "error")>>],
                         value |-> <<FALSE, "AI_002">>]}
                  ELSE {[obj |-> [obj EXCEPT !.validation_errors =
                                      Append(errors, parse_result.details)],
                         value |-> <<FALSE, parse_result.error>>]}
             ELSE LET parsed == [obj EXCEPT !.ast = parse_result.tree,
                                            !.validation_cache.ast_cache = parse_result.tree]
                  IN  { IF ~dependency_result.validation.success
                        THEN [obj |-> [parsed EXCEPT !.validation_errors =
                                          errors \o dependency_result.validation.errors],
                              value |-> <<FALSE, "AI_002">>]
                        ELSE [obj |-> [parsed EXCEPT
                                          !.dependencies = dependency_result,
                                          !.validation_cache.validation_result =
                                              <<TRUE, "Formula validation successful">>,
                                          !.validation_cache.last_validated = TRUE],
                              value |-> <<TRUE, "Formula validation successful">>]
                        : dependency_result \in
                              AnalyzeDependenciesResults(obj.expression, <<>>) }

\* the expressions a Formula is constructed from: texts of at most
\* MaxChunks chunks, and texts around the maximum length
ModelChunks == {<<"=">>, <<"1">>, <<"+">>, <<" ">>, <<"(">>, <<"U+00E9">>}

LongExpressions ==
    {Repeat("#", n) : n \in (MAX_FORMULA_LENGTH - 1)..(MAX_FORMULA_LENGTH + 1)}
        \cup {<<"=">> \o Repeat("#", n) : n \in (MAX_FORMULA_LENGTH - 1)..MAX_FORMULA_LENGTH}
        \cup {<<"1">> \o Repeat(" ", MAX_FORMULA_LENGTH - 1),
              <<"1">> \o Repeat("U+00E9", MAX_FORMULA_LENGTH - 1)}

Expressions ==
    {Flatten(cs) : cs \in SeqsUpTo(ModelChunks, MaxChunks)} \cup LongExpressions
        \cup {NotText, <<"=","S","U","M","(","A","1",":","A","1","0",")">>,
              <<"A","1","+","S","h","e","e","t","2","!","B","2">>}

Arguments(expression, sheet_name, confidence_score) ==
    [expression |-> expression, sheet_name |-> sheet_name,
     confidence_score |-> confidence_score]

ModelInputs ==
    {Arguments(e, "Sheet1", 95) : e \in Expressions}
        \cup {Arguments(<<"=", "1">>, sheet_name, confidence_score) :
                 sheet_name \in {"Sheet1", ""}, confidence_score \in {50, 80}}

FormulaInit ==
    /\ input \in ModelInputs
    /\ ParserInit
    /\ ModelInit
    /\ dependency_map = <<>>
    /\ validation_context = <<>>
    /\ valid_functions = <<>>
    /\ syntax_cache = <<>>
    /\ called = NoCall
    /\ validator_result = None

\* Formula(**input)
Construct ==
    /\ returned.op = "none"
    /\ LET r == PostInit(input)
       IN  IF r.raised
           THEN /\ returned' = [op |-> "__init__", raised |-> TRUE, msg |-> r.msg]
                /\ UNCHANGED formula_obj
           ELSE /\ returned' = [op |-> "__init__", raised |-> FALSE]
                /\ formula_obj' = r.value
    /\ UNCHANGED <<input, parser_vars, validator_vars>>

\* formula_obj.validate(), on a Formula with fewer than MaxErrors errors
ValidateCall ==
    /\ formula_obj # None
    /\ Len(formula_obj.validation_errors) < MaxErrors
    /\ \E r \in Validate(formula_obj) :
          /\ formula_obj' = r.obj
          /\ returned' = [op |-> "validate", raised |-> FALSE, value |-> r.value]
    /\ UNCHANGED <<input, parser_vars, validator_vars>>

FormulaNext ==
    \/ Construct
    \/ ValidateCall

FormulaSpec == FormulaInit /\ [][FormulaNext]_vars



(***************************************************************************)
(* Vocabulary of the properties.                                           *)
(***************************************************************************)
Done == pc = "done"

\* parse has returned a success
Accepted == pc = "done" /\ result.success

\* tokenize has returned its tokens (parse went on to build_ast)
Tokenized == pc \in {"build_ast", "validate", "done"} /\ tok_idx >= 1

\* the message of a result ("" when it carries no details)
Msg(r) == IF "details" \in DOMAIN r THEN r.details.msg ELSE ""

IsOperand(t) == t.type \in {"number", "string", "reference"}

OperandTokens(toks) == SelectSeq(toks, IsOperand)

IsDelimiter(t, c) == t.type = "delimiter" /\ t.value = Str(c)

\* number of leaves (number, string, reference nodes) of a tree
RECURSIVE LeafCount(_)
RECURSIVE LeafCountAll(_, _)
LeafCount(node) ==
    IF node = None THEN 0
    ELSE IF node.type = "operation" THEN LeafCount(node.left) + LeafCount(node.right)
    ELSE IF node.type = "function" THEN LeafCountAll(node.arguments, 1)
    ELSE 1

LeafCountAll(args, i) ==
    IF i > Len(args) THEN 0 ELSE LeafCount(args[i]) + LeafCountAll(args, i + 1)

\* the values of the leaves of a tree, left to right
RECURSIVE LeafValues(_)
RECURSIVE LeafValuesAll(_, _)
LeafValues(node) ==
    IF node = None THEN <<>>
    ELSE IF node.type = "operation" THEN LeafValues(node.left) \o LeafValues(node.right)
    ELSE IF node.type = "function" THEN LeafValuesAll(node.arguments, 1)
    ELSE <<node.value>>

LeafValuesAll(args, i) ==
    IF i > Len(args) THEN <<>> ELSE LeafValues(args[i]) \o LeafValuesAll(args, i + 1)

\* parenthesis depth after the first i tokens (a ')' at depth 0 keeps it at 0)
RECURSIVE DepthAfter(_, _)
DepthAfter(toks, i) ==
    IF i = 0 THEN 0
    ELSE LET d == DepthAfter(toks, i - 1)
         IN  IF IsDelimiter(toks[i], "(") THEN d + 1
             ELSE IF IsDelimiter(toks[i], ")") /\ d > 0 THEN d - 1
             ELSE d

\* token i is met at parenthesis depth 0
AtDepthZero(toks, i) == DepthAfter(toks, i - 1) = 0

\* the '(' and ')' tokens do not pair up
ParensUnpaired(toks) ==
    \/ \E i \in 1..Len(toks) : IsDelimiter(toks[i], ")") /\ AtDepthZero(toks, i)
    \/ DepthAfter(toks, Len(toks)) > 0

CommaOutside(toks) ==
    \E i \in 1..Len(toks) : IsDelimiter(toks[i], ",") /\ AtDepthZero(toks, i)

HasMarker(st) == \E i \in 1..Len(st) : st[i].type = "left_paren"

(***************************************************************************)
(* C1.  For every formula parse accepts, the number of leaves of the       *)
(* returned tree equals the number of number, string and reference tokens  *)
(* tokenize produced (no operand is dropped or duplicated).                *)
(***************************************************************************)
C1_LeafCountEqualsOperandTokens ==
    Accepted => LeafCount(result.tree) = Len(OperandTokens(tokens))

(***************************************************************************)
(* C2.  A call written with n >= 1 top-level comma-separated arguments     *)
(* yields a function node with exactly n arguments, in call order.         *)
(***************************************************************************)
\* the tokens are one call  name ( ... )  whose last token closes its '('
IsCall(toks) ==
    /\ Len(toks) >= 4
    /\ toks[1].type = "function"
    /\ IsDelimiter(toks[2], "(")
    /\ IsDelimiter(toks[Len(toks)], ")")
    /\ \A i \in 2..(Len(toks) - 1) : DepthAfter(toks, i) >= 1
    /\ DepthAfter(toks, Len(toks)) = 0

\* the commas of the call's own parentheses
TopLevelCommas(toks) ==
    {i \in 1..Len(toks) : IsDelimiter(toks[i], ",") /\ DepthAfter(toks, i) = 1}

\* no argument of the call is empty
ArgumentsWritten(toks) ==
    \A i \in TopLevelCommas(toks) \cup {Len(toks)} :
        ~IsDelimiter(toks[i - 1], "(") /\ ~IsDelimiter(toks[i - 1], ",")

C2_CallHasItsArguments ==
    (Accepted /\ IsCall(tokens) /\ ArgumentsWritten(tokens)) =>
        /\ result.tree.type = "function"
        /\ Len(result.tree.arguments) = Cardinality(TopLevelCommas(tokens)) + 1
        /\ LeafValues(result.tree) = [i \in 1..Len(OperandTokens(tokens)) |->
                                          OperandTokens(tokens)[i].value]


(***************************************************************************)
(* C3.  When parse accepts a parenthesis-free formula of binary operators  *)
(* (operand, operator, operand, ...), of two adjacent operators of         *)
(* different precedence the higher one is nested beneath the lower one;    *)
(* =2+3*4 yields + at the root with left 2 and right (3 * 4).              *)
(***************************************************************************)
\* operand (operator operand)*
IsInfixChain(toks) ==
    /\ Len(toks) % 2 = 1
    /\ \A i \in 1..Len(toks) :
          IF i % 2 = 1 THEN IsOperand(toks[i]) ELSE toks[i].type = "operator"

\* the operands and operators of a tree of operations, left to right
RECURSIVE InOrder(_)
InOrder(node) ==
    IF node.type = "operation"
    THEN InOrder(node.left) \o <<node.operator>> \o InOrder(node.right)
    ELSE IF node.type = "function" THEN <<node.name>>
    ELSE <<node.value>>

\* the way ("L"/"R" steps) from the root to the j-th node in left-to-right order
RECURSIVE PathTo(_, _)
PathTo(node, j) ==
    IF node.type # "operation" THEN <<>>
    ELSE LET n == Len(InOrder(node.left))
         IN  IF j <= n THEN <<"L">> \o PathTo(node.left, j)
             ELSE IF j = n + 1 THEN <<>>
             ELSE <<"R">> \o PathTo(node.right, j - n - 1)

\* the j-th node lies in the subtree of the i-th node
Beneath(tree, i, j) ==
    LET a == PathTo(tree, i)
        b == PathTo(tree, j)
    IN  Len(a) < Len(b) /\ SubSeq(b, 1, Len(a)) = a

Precedence(op) == OperatorTable[op].precedence

TwoPlusThreeTimesFour == <<"=", "2", "+", "3", "*", "4">>

Number(c) == [type |-> "number", value |-> Str(c)]

C3_HigherPrecedenceNestsBeneath ==
    /\ (Accepted /\ IsInfixChain(tokens)) =>
          /\ InOrder(result.tree) = [i \in 1..Len(tokens) |-> tokens[i].value]
          /\ \A i \in 1..Len(tokens) :
                (i % 2 = 0 /\ i + 2 < Len(tokens)) =>
                    /\ tokens[i].value \in DOMAIN OperatorTable
                    /\ tokens[i + 2].value \in DOMAIN OperatorTable
                    /\ Precedence(tokens[i].value) < Precedence(tokens[i + 2].value)
                          => Beneath(result.tree, i, i + 2)
                    /\ Precedence(tokens[i].value) > Precedence(tokens[i + 2].value)
                          => Beneath(result.tree, i + 2, i)
    /\ (Done /\ input = TwoPlusThreeTimesFour) =>
          /\ result.success
          /\ result.tree = Operation(Str("+"), Number("2"),
                                     Operation(Str("*"), Number("3"), Number("4")))

C3_Witness ==
    /\ Accepted
    /\ IsInfixChain(tokens)
    /\ \E i \in 1..Len(tokens) :
          /\ i % 2 = 0 /\ i + 2 < Len(tokens)
          /\ Precedence(tokens[i].value) < Precedence(tokens[i + 2].value)
    /\ \E i \in 1..Len(tokens) :
          /\ i % 2 = 0 /\ i + 2 < Len(tokens)
          /\ Precedence(tokens[i].value) > Precedence(tokens[i + 2].value)

(***************************************************************************)
(* C4.  As claimed: parse fails with 'Mismatched parentheses' if and only  *)
(* if the '(' and ')' tokens do not pair up, or a ')' or a ',' is met with *)
(* no open-parenthesis marker on the operator stack.                       *)
(***************************************************************************)
C4_MismatchIffUnpairedOrCommaOutside ==
    (Done /\ Tokenized) =>
        (Msg(result) = "Mismatched parentheses"
            <=> (ParensUnpaired(tokens) \/ CommaOutside(tokens)))

(***************************************************************************)
(* C4, amended.  parse comes to fail with 'Mismatched parentheses' exactly *)
(* in a step of build_ast that meets a ')' token with no open-parenthesis  *)
(* marker on the operator stack, or that has consumed every token and      *)
(* finds such a marker left on the stack.  (A ',' with no marker is        *)
(* 'Invalid formula structure'; a tokenizer failure or an internal         *)
(* exception that comes first has its own outcome.)                        *)
(***************************************************************************)
MismatchCause ==
    /\ pc = "build_ast"
    /\ \/ /\ tok_idx <= Len(tokens)
          /\ tokens[tok_idx].value = Str(")")
          /\ ~HasMarker(stack)
       \/ /\ tok_idx > Len(tokens)
          /\ HasMarker(stack)

C4_MismatchExactlyOnParenthesisDefect ==
    [][(Msg(result') = "Mismatched parentheses") <=> MismatchCause]_vars

C4_Witness ==
    /\ Done
    /\ Msg(result) = "Mismatched parentheses"
    /\ tok_idx <= Len(tokens)
    /\ \E i \in 1..(tok_idx - 1) : IsDelimiter(tokens[i], ",")

(***************************************************************************)
(* C5.  When tree construction would pop from an empty operand stack       *)
(* (=-A1, a call with empty parentheses), the failure is surfaced as       *)
(* 'Mismatched parentheses'.                                               *)
(***************************************************************************)
\* build_ast emptied its stack and _build_tree ran out of operands
Underflow ==
    /\ Done
    /\ Tokenized
    /\ tok_idx > Len(tokens)
    /\ stack = <<>>
    /\ BuildTree(output).raised

C5_UnderflowIsMismatchedParentheses ==
    Underflow => Msg(result) = "Mismatched parentheses"


TokenEnd(t) == t.position + Len(t.value)

AllIn(s, Class) == \A i \in 1..Len(s) : s[i] \in Class

\* the text between offsets a and b is whitespace
Blank(s, a, b) == \A p \in a..(b - 1) : At(s, p) \in Whitespace

SumOfRange == <<"=","S","U","M","(","A","1",":","A","1","0",")">>

SumOfRangeTokens ==
    << Token("function", <<"S","U","M">>, 1),
       Token("delimiter", <<"(">>, 4),
       Token("reference", <<"A","1",":","A","1","0">>, 5),
       Token("delimiter", <<")">>, 11) >>

C7_TokensInSourceOrder ==
    Tokenized =>
        LET n == Len(tokens)
        IN  /\ \A i \in 1..n :
                  /\ tokens[i].value # <<>>
                  /\ tokens[i].value = Slice(formula, tokens[i].position, TokenEnd(tokens[i]))
                  /\ tokens[i].value[1] \notin Whitespace
                  /\ Blank(formula, IF i = 1 THEN 1 ELSE TokenEnd(tokens[i - 1]),
                           tokens[i].position)
            /\ Blank(formula, IF n = 0 THEN 1 ELSE TokenEnd(tokens[n]), Len(formula))
            /\ \A i \in 1..n :
                  tokens[i].type = "function" =>
                      /\ AllIn(tokens[i].value, Letters)
                      /\ i < n
                      /\ IsDelimiter(tokens[i + 1], "(")
                      /\ tokens[i + 1].position = TokenEnd(tokens[i])
            /\ \A i \in 1..n :
                  (/\ tokens[i].value[1] \in Letters
                   /\ Is(formula, tokens[i].position
                                    + RunLen(formula, tokens[i].position, Letters), "("))
                      => tokens[i].type = "function"
            /\ \A i \in 1..(n - 2) :
                  ~ (/\ tokens[i].type = "reference"
                     /\ ~Contains(tokens[i].value, ":")
                     /\ IsDelimiter(tokens[i + 1], ":")
                     /\ tokens[i + 1].position = TokenEnd(tokens[i])
                     /\ tokens[i + 2].type = "reference"
                     /\ tokens[i + 2].position = TokenEnd(tokens[i + 1])
                     /\ ~Contains(tokens[i + 2].value, "!"))
            /\ input = SumOfRange => tokens = SumOfRangeTokens

C7_Witness ==
    /\ Tokenized
    /\ input = SumOfRange
    /\ tokens = SumOfRangeTokens

(***************************************************************************)
(* C8.  Whenever the scan stands at the opening quote of a string literal  *)
(* that has no closing quote before the end of the input, tokenize fails   *)
(* with an outcome other than the 'Unexpected character' one.              *)
(***************************************************************************)
AtUnterminatedString ==
    /\ pc = "tokenize"
    /\ Is(formula, current_pos, "\"")
    /\ Find(formula, "\"", current_pos + 1) = Len(formula)

C8_UnterminatedStringIsDistinguished ==
    [][AtUnterminatedString =>
          /\ pc' = "done"
          /\ ~result'.success
          /\ Msg(result') # "Unexpected character"]_vars

(***************************************************************************)
(* C9.  Every failure of tokenize names the offending character together   *)
(* with that character's own offset in the formula, and carries no token   *)
(* list.                                                                   *)
(***************************************************************************)
C9_FailureNamesCharacterAtItsOffset ==
    (Done /\ Msg(result) = "Unexpected character") =>
        /\ "tokens" \notin DOMAIN result
        /\ result.details.position < Len(formula)
        /\ At(formula, result.details.position) = result.details.char

(***************************************************************************)
(* C10.  analyze_dependencies records every reference matched in the text  *)
(* once: as cross-sheet when it contains '!', with the sheet name (quotes  *)
(* around it stripped) and the cell or range after the '!', and as direct  *)
(* otherwise; =Sheet2!B2+A1 gives direct A1 and cross-sheet (Sheet2, B2).  *)
(***************************************************************************)
HasBang(ref) == Contains(ref, "!")

HasNoBang(ref) == ~Contains(ref, "!")

Quotes == {<<>>, <<"'">>}

SheetPlusCell == <<"=","S","h","e","e","t","2","!","B","2","+","A","1">>

C10_ReferencesClassified ==
    pc = "analyzed" =>
        LET refs  == FindAll(input)
            cross == SelectSeq(refs, HasBang)
            d     == dependencies
        IN  /\ d.direct = SelectSeq(refs, HasNoBang)
            /\ Len(d.cross_sheet) = Len(cross)
            /\ \A k \in 1..Len(cross) :
                  LET c == d.cross_sheet[k]
                  IN  /\ c.sheet # <<>>
                      /\ c.sheet[1] # "'"
                      /\ c.sheet[Len(c.sheet)] # "'"
                      /\ ~Contains(c.reference, "!")
                      /\ \E q1 \in Quotes, q2 \in Quotes :
                            cross[k] = q1 \o c.sheet \o q2 \o <<"!">> \o c.reference
            /\ input = SheetPlusCell =>
                  /\ d.direct = << <<"A", "1">> >>
                  /\ d.cross_sheet = << [sheet |-> <<"S","h","e","e","t","2">>,
                                         reference |-> <<"B", "2">>] >>

C10_Witness ==
    /\ pc = "analyzed"
    /\ input = SheetPlusCell
    /\ Len(dependencies.direct) = 1
    /\ Len(dependencies.cross_sheet) = 1


(***************************************************************************)
(* C11.  In the record analyze_dependencies returns, direct and            *)
(* cross_sheet hold every reference once, however often it occurs in the   *)
(* formula.                                                                *)
(***************************************************************************)
NoDuplicates(s) == \A i, j \in 1..Len(s) : s[i] = s[j] => i = j

C11_ReferencesRecordedOnce ==
    pc = "analyzed" =>
        /\ NoDuplicates(dependencies.direct)
        /\ NoDuplicates(dependencies.cross_sheet)

(***************************************************************************)
(* C12.  analyze_dependencies reports a non-empty circular list, with      *)
(* validation.success = false, exactly when a cycle of the dependency map  *)
(* can be reached through the map from a direct reference of the formula;  *)
(* with an empty map it never reports circularity.                         *)
(***************************************************************************)
Successors(map, S) == UNION {Range(map[a]) : a \in S \cap DOMAIN map}

\* the references reachable from S in any number of steps
RECURSIVE Reachable(_, _)
Reachable(map, S) ==
    LET T == S \cup Successors(map, S)
    IN  IF T = S THEN S ELSE Reachable(map, T)

OnCycle(map, r) == r \in Reachable(map, Successors(map, {r}))

CycleReachable(map, refs) == \E r \in Reachable(map, refs) : OnCycle(map, r)

C12_CircularExactlyWhenCycleReachable ==
    pc = "analyzed" =>
        LET d == dependencies
            reported == d.circular # <<>>
        IN  /\ reported <=> (input # NotText
                               /\ CycleReachable(dependency_map, Range(d.direct)))
            /\ reported => /\ ~d.validation.success
                           /\ d.validation.errors = <<[msg |-> "Circular reference detected"]>>
            /\ dependency_map = <<>> => ~reported

\* a cycle that the formula's reference leads to without lying on it
C12_Witness ==
    /\ pc = "analyzed"
    /\ dependencies.circular # <<>>
    /\ ~dependencies.validation.success
    /\ \A r \in Range(dependencies.direct) : ~OnCycle(dependency_map, r)

(***************************************************************************)
(* C13.  Every chain that circular-reference detection reports lists the   *)
(* references of the loop in traversal order (each reference depends on    *)
(* the next through the map) and starts and ends with the same reference.  *)
(***************************************************************************)
IsLoopChain(map, chain) ==
    /\ Len(chain) >= 2
    /\ chain[1] = chain[Len(chain)]
    /\ \A i \in 1..(Len(chain) - 1) :
          chain[i] \in DOMAIN map /\ chain[i + 1] \in Range(map[chain[i]])

C13_ChainsAreLoopsInTraversalOrder ==
    pc = "analyzed" =>
        \A k \in 1..Len(dependencies.circular) :
            IsLoopChain(dependency_map, dependencies.circular[k])

(***************************************************************************)
(* C14.  analyze_dependencies never raises: it always returns a record,    *)
(* and when the analysis failed internally (as it does for a formula that  *)
(* is not a text) the record has empty direct, cross_sheet and circular    *)
(* collections and validation.success false with a message naming the      *)
(* failure.                                                                *)
(***************************************************************************)
AnalysisFailure(d) ==
    \E k \in 1..Len(d.validation.errors) :
        d.validation.errors[k].msg = "Dependency analysis failed"

C14_AnalysisFailureIsReturned ==
    pc = "analyzed" =>
        /\ "raised" \notin DOMAIN dependencies
        /\ DOMAIN dependencies = {"direct", "indirect", "circular", "cross_sheet", "validation"}
        /\ input = NotText => AnalysisFailure(dependencies)
        /\ AnalysisFailure(dependencies) =>
              /\ dependencies.direct = <<>>
              /\ dependencies.cross_sheet = <<>>
              /\ dependencies.circular = <<>>
              /\ ~dependencies.validation.success
              /\ Len(dependencies.validation.errors) = 1
              /\ dependencies.validation.errors[1].exc # ""

C14_Witness ==
    /\ pc = "analyzed"
    /\ input = NotText
    /\ AnalysisFailure(dependencies)
    /\ ~dependencies.validation.success


(***************************************************************************)
(* C15.  validate_functions fails whenever some call in the formula, of a  *)
(* function that has an argument-count spec, has a number of top-level     *)
(* arguments outside [min_args, max_args] - whichever call of the formula  *)
(* it is; with the spec SUM: {min_args 1, max_args 255}, =SUM() fails.     *)
(***************************************************************************)
After(op) == called.op = op

\* the call matched at offset p has a spec and its own argument list, the
\* one closed after its own '(', has a count outside the spec
CallOutsideSpec(f, p, functions) ==
    LET name  == Slice(f, p, p + RunLen(f, p, NameChars))
        spec  == Get(functions, ToUpper(name), <<>>)
        found == ArgumentsAt(f, FunctionCallMatch(f, p))
    IN  DOMAIN spec # {} /\ found.closed /\ CountOutside(found.args, spec)

SomeCallOutsideSpec(f, functions) ==
    LET offsets == FunctionOffsetsFrom(f, 0)
    IN  \E k \in 1..Len(offsets) : CallOutsideSpec(f, offsets[k], functions)

C15_EveryCallIsCounted ==
    After("validate_functions") =>
        /\ SomeCallOutsideSpec(input, valid_functions) => ~validator_result.is_valid
        /\ (input = <<"=","S","U","M","(",")">> /\ valid_functions = SumFunctions)
              => ~validator_result.is_valid

(***************************************************************************)
(* C16.  With the controller's default configuration the validation       *)
(* pipeline reports is_valid = true (and with it an empty suggestions      *)
(* list) for =SUM(A1:A10) and =SUM(IF(A1:A10>0,B1:B10,0)).                 *)
(***************************************************************************)
SumOfIf ==
    <<"=","S","U","M","(","I","F","(","A","1",":","A","1","0",">","0",",",
      "B","1",":","B","1","0",",","0",")",")">>

C16_StandardFormulasAccepted ==
    (/\ After("_validate_formula")
     /\ validation_context = ControllerContext
     /\ valid_functions = DefaultFunctions
     /\ input \in {SumOfRange, SumOfIf})
        => validator_result.is_valid

(***************************************************************************)
(* C17.  validate_references accepts a reference to one cell exactly when  *)
(* its row lies in 1..max_rows and its column number (letters read in base *)
(* 26, A = 1) lies in 1..max_cols, the limits being 1,048,576 and 16,384   *)
(* unless the context gives others: A1, Z99, AA1 and XFD1048576 are        *)
(* accepted and XFD1048577 is rejected.                                    *)
(***************************************************************************)
RECURSIVE Power(_, _)
Power(b, e) == IF e = 0 THEN 1 ELSE b * Power(b, e - 1)

\* the value of the digits ds (most significant first) in the given base
RECURSIVE PositionalValue(_, _)
PositionalValue(ds, base) ==
    IF ds = <<>> THEN 0
    ELSE Head(ds) * Power(base, Len(ds) - 1) + PositionalValue(Tail(ds), base)

IsLetter(c) == c \in Letters

IsDigit(c) == c \in Digits

ColumnNumber(cell) ==
    LET letters == SelectSeq(cell, IsLetter)
    IN  PositionalValue([i \in 1..Len(letters) |-> LetterNumber(letters[i])], 26)

RowNumber(cell) ==
    LET digits == SelectSeq(cell, IsDigit)
    IN  PositionalValue([i \in 1..Len(digits) |-> DigitValue(digits[i])], 10)

MaxRows == IF "max_rows" \in DOMAIN validation_context THEN validation_context.max_rows ELSE 1048576

MaxCols == IF "max_cols" \in DOMAIN validation_context THEN validation_context.max_cols ELSE 16384

InBounds(cell) ==
    /\ 1 <= RowNumber(cell) /\ RowNumber(cell) <= MaxRows
    /\ 1 <= ColumnNumber(cell) /\ ColumnNumber(cell) <= MaxCols

\* the formula is '=' and one cell reference
IsCellFormula(f) ==
    /\ Len(f) >= 2
    /\ f[1] = "="
    /\ CellMatch(Tail(f), 0) = Len(f) - 1

C17_CellAcceptedExactlyWithinBounds ==
    (After("validate_references") /\ called.argument = {}) =>
        /\ IsCellFormula(input) => (validator_result.is_valid <=> InBounds(Tail(input)))
        /\ validation_context = ControllerContext =>
              /\ input \in {<<"=","A","1">>, <<"=","Z","9","9">>, <<"=","A","A","1">>,
                            <<"=","X","F","D","1","0","4","8","5","7","6">>}
                    => validator_result.is_valid
              /\ input = <<"=","X","F","D","1","0","4","8","5","7","7">>
                    => ~validator_result.is_valid

C17_Witness ==
    /\ After("validate_references")
    /\ called.argument = {}
    /\ validation_context = <<>>
    /\ input = <<"=","X","F","D","1","0","4","8","5","7","7">>
    /\ ~validator_result.is_valid
    /\ validator_result.error_message = "Cell reference is out of worksheet bounds"

(***************************************************************************)
(* C18.  validate_references rejects a formula when some cell of some      *)
(* reference it contains has a row or column out of bounds, the second     *)
(* cell of a range included (A1:XFD1048577).                               *)
(***************************************************************************)
CellsOf(ref) == Range(Split(ref, ":"))

C18_EveryCellOfARangeIsChecked ==
    After("validate_references") =>
        ((\E ref \in Range(RangeFindAll(input)) : \E cell \in CellsOf(ref) : ~InBounds(cell))
            => ~validator_result.is_valid)

(***************************************************************************)
(* C19.  validate_syntax returns valid exactly when the formula is not     *)
(* empty and within the maximum length, starts (after optional whitespace) *)
(* with '=' followed by a character other than '=', has its ( ) [ ] { }    *)
(* balanced and type-matched, and has no two consecutive arithmetic        *)
(* operators; SUM(A1:A10) is rejected with "Formula must start with '='".  *)
(***************************************************************************)
IsBracket(c) == c \in DOMAIN Brackets \cup ClosingBrackets

\* brackets are balanced and type-matched when taking away, again and
\* again, an opening bracket next to its closing one leaves none
RECURSIVE Balanced(_)
Balanced(bs) ==
    IF bs = <<>> THEN TRUE
    ELSE LET pairs == {i \in 1..(Len(bs) - 1) :
                          bs[i] \in DOMAIN Brackets /\ bs[i + 1] = Brackets[bs[i]]}
         IN  IF pairs = {} THEN FALSE
             ELSE LET i == CHOOSE j \in pairs : TRUE
                  IN  Balanced(SubSeq(bs, 1, i - 1) \o SubSeq(bs, i + 2, Len(bs)))

StartsWithEquals(f) ==
    LET p == RunLen(f, 0, Whitespace)
    IN  Is(f, p, "=") /\ p + 1 < Len(f) /\ At(f, p + 1) # "="

WellFormedSyntax(f) ==
    /\ f # <<>>
    /\ Len(f) <= MAX_FORMULA_LENGTH
    /\ StartsWithEquals(f)
    /\ Balanced(SelectSeq(f, IsBracket))
    /\ ~\E p \in 0..(Len(f) - 2) :
           At(f, p) \in {"+", "-", "*", "/"} /\ At(f, p + 1) \in {"+", "-", "*", "/"}

C19_ValidExactlyWhenWellFormed ==
    After("validate_syntax") =>
        /\ validator_result.is_valid <=> WellFormedSyntax(called.formula)
        /\ called.formula = <<"S","U","M","(","A","1",":","A","1","0",")">>
              => validator_result = Invalid("Formula must start with '='", <<>>)

(***************************************************************************)
(* C20.  validate_syntax returns for a formula what its body computes for  *)
(* that formula, whatever was validated before: a second call on the same  *)
(* formula yields the result of the first, also with other formulas and    *)
(* other checks in between, and every remembered result is the result of   *)
(* the formula it is remembered for.                                       *)
(***************************************************************************)
C20_SyntaxResultDependsOnFormulaOnly ==
    /\ After("validate_syntax") =>
          validator_result = ValidateSyntaxBody(called.formula, MAX_FORMULA_LENGTH)
    /\ \A i \in 1..Len(syntax_cache) :
          syntax_cache[i].value = ValidateSyntaxBody(syntax_cache[i].key, MAX_FORMULA_LENGTH)
    /\ \A i, j \in 1..Len(syntax_cache) :
          syntax_cache[i].key = syntax_cache[j].key => i = j

\* a second call on the formula, answered from the cache after another
\* formula with another result was validated
C20_Witness ==
    /\ After("validate_syntax")
    /\ called.formula = input
    /\ called.argument
    /\ Len(syntax_cache) = 2
    /\ syntax_cache[1].value # syntax_cache[2].value
    /\ validator_result.is_valid


(***************************************************************************)
(* C21.  Of two neighbouring operators of equal precedence in a chain of   *)
(* operands and operators, build_ast nests the first beneath the second    *)
(* when the second is left-associative (1-2-3 is (1-2)-3, also across      *)
(* + - & and across * /) and the second beneath the first when it is       *)
(* right-associative (1^2^3 is 1^(2^3)).                                   *)
(***************************************************************************)
Associativity(op) == OperatorTable[op].associativity

\* the formula 1 a 2 b 3
OneTwoThree(a, b) == <<"=", "1", a, "2", b, "3">>

LeftNested(a, b) ==
    Operation(Str(b), Operation(Str(a), Number("1"), Number("2")), Number("3"))

RightNested(a, b) ==
    Operation(Str(a), Number("1"), Operation(Str(b), Number("2"), Number("3")))

C21_EqualPrecedenceNestsByAssociativity ==
    /\ (Accepted /\ IsInfixChain(tokens)) =>
          \A i \in 1..Len(tokens) :
              (/\ i % 2 = 0 /\ i + 2 < Len(tokens)
               /\ tokens[i].value \in DOMAIN OperatorTable
               /\ tokens[i + 2].value \in DOMAIN OperatorTable
               /\ Precedence(tokens[i].value) = Precedence(tokens[i + 2].value))
                  => IF Associativity(tokens[i + 2].value) = "left"
                     THEN Beneath(result.tree, i + 2, i)
                     ELSE Beneath(result.tree, i, i + 2)
    /\ \A a, b \in {"+", "-", "&"} :
          (Done /\ input = OneTwoThree(a, b)) =>
              result.success /\ result.tree = LeftNested(a, b)
    /\ \A a, b \in {"*", "/"} :
          (Done /\ input = OneTwoThree(a, b)) =>
              result.success /\ result.tree = LeftNested(a, b)
    /\ (Done /\ input = OneTwoThree("^", "^")) =>
          result.success /\ result.tree = RightNested("^", "^")

C21_Witness ==
    /\ Done
    /\ input = <<"=", "1", "-", "2", "&", "3", "^", "4">>
    /\ result.success
    /\ result.tree =
          Operation(Str("&"), Operation(Str("-"), Number("1"), Number("2")),
                    Operation(Str("^"), Number("3"), Number("4")))


(***************************************************************************)
(* C22.  _validate_ast requires a recognized tag on every node: a tree     *)
(* with a node whose type is none of the operand tags (number, string,     *)
(* reference), operation or function is reported as not valid, with a      *)
(* defect in its error list.                                               *)
(***************************************************************************)
KnownTags == {"number", "string", "reference", "operation", "function"}

\* the nodes of a tree, each with its depth (the root at depth d): the
\* children are the two sides of an operation and the arguments of a function
RECURSIVE NodesOf(_, _)
RECURSIVE NodesOfAll(_, _, _)
NodesOf(node, d) ==
    <<[node |-> node, depth |-> d]>> \o
        (IF node = None \/ ~Has(node, {"type"}) THEN <<>>
         ELSE IF node.type = "operation" /\ Has(node, {"left", "right"})
         THEN NodesOf(node.left, d + 1) \o NodesOf(node.right, d + 1)
         ELSE IF node.type = "function" /\ Has(node, {"arguments"})
         THEN NodesOfAll(node.arguments, 1, d + 1)
         ELSE <<>>)

NodesOfAll(args, i, d) ==
    IF i > Len(args) THEN <<>> ELSE NodesOf(args[i], d) \o NodesOfAll(args, i + 1, d)

HasUnknownTag(tree) ==
    \E n \in Range(NodesOf(tree, 1)) :
        n.node # None /\ Has(n.node, {"type"}) /\ n.node.type \notin KnownTags

C22_EveryNodeNeedsAKnownTag ==
    (pc = "validated" /\ HasUnknownTag(input)) =>
        /\ ~result.success
        /\ Has(result, {"errors"}) /\ result.errors # <<>>


(***************************************************************************)
(* C24.  The complexity metrics of a tree are: depth, the greatest depth   *)
(* of a node with the root counted as 1; operations, the number of         *)
(* operation nodes; functions, the number of function nodes; references,   *)
(* the number of leaves of type reference.  Every node is counted once.    *)
(***************************************************************************)
Tagged(tree, tag) ==
    LET nodes == NodesOf(tree, 1)
    IN  Cardinality({i \in 1..Len(nodes) : nodes[i].node.type = tag})

Deepest(tree) ==
    LET nodes == NodesOf(tree, 1)
    IN  CHOOSE d \in {nodes[i].depth : i \in 1..Len(nodes)} :
            \A i \in 1..Len(nodes) : nodes[i].depth <= d

C24_MetricsCountEveryNodeOnce ==
    pc = "measured" =>
        result = [depth      |-> Deepest(input),
                  operations |-> Tagged(input, "operation"),
                  functions  |-> Tagged(input, "function"),
                  references |-> Tagged(input, "reference")]

C24_Witness ==
    /\ pc = "measured"
    /\ input.type = "function"
    /\ result = [depth |-> 3, operations |-> 0, functions |-> 2, references |-> 3]


(***************************************************************************)
(* C23.  check_semantic_validity rejects a formula for its nesting exactly *)
(* when its parentheses reach a depth greater than 7; where the locale     *)
(* rule does not apply, a formula is accepted exactly when its depth is at *)
(* most 7: seven levels are accepted and eight rejected.                   *)
(***************************************************************************)
CountIn(f, k, c) == Cardinality({i \in 1..k : f[i] = c})

\* the greatest number of parentheses open at a place of the text
ReachedDepth(f) ==
    LET open == [k \in 0..Len(f) |-> CountIn(f, k, "(") - CountIn(f, k, ")")]
    IN  CHOOSE d \in {open[k] : k \in 0..Len(f)} : \A k \in 0..Len(f) : open[k] <= d

TooDeep == Invalid("Formula exceeds maximum recommended nesting depth", <<>>)

LocaleRuleApplies == called.argument \in {"de-DE", "fr-FR"} /\ Contains(input, ".")

C23_NestingRejectedExactlyBeyondSeven ==
    After("check_semantic_validity") =>
        /\ validator_result = TooDeep <=> ReachedDepth(input) > 7
        /\ ~LocaleRuleApplies => (validator_result.is_valid <=> ReachedDepth(input) <= 7)
        /\ input = Nested(7) => validator_result.is_valid
        /\ input = Nested(8) => validator_result = TooDeep

C23_Witness ==
    /\ After("check_semantic_validity")
    /\ input = <<"=">> \o Repeat("(", 7) \o <<")", "(", "1">> \o Repeat(")", 7)
    /\ called.argument = "de-DE"
    /\ validator_result.is_valid


(***************************************************************************)
(* C25.  build_ast handles every operator token tokenize produces: an      *)
(* operator run of several characters such as >= or <> never makes         *)
(* build_ast fail on a lookup in its operator table, and a chain with such *)
(* an operator is accepted whatever operators stand around it, as the      *)
(* operator alone between two operands is.                                 *)
(***************************************************************************)
LookupFailure(r) ==
    /\ ~r.success
    /\ Has(r, {"details"})
    /\ r.details.msg = "AST construction failed"
    /\ r.details.exc = "KeyError"

C25_EveryOperatorRunIsHandled ==
    /\ Done => ~LookupFailure(result)
    /\ (Done /\ Tokenized /\ IsInfixChain(tokens)) => result.success


(***************************************************************************)
(* C29.  tokenize terminates on every formula: an iteration of its scan    *)
(* loop returns or moves the scan position forward by at least one         *)
(* character, the position never moves backwards or past the end of the    *)
(* formula, and the scan comes to an end.                                  *)
(***************************************************************************)
ScanStep ==
    pc = "tokenize" =>
        /\ pc' # "tokenize" \/ current_pos' >= current_pos + 1
        /\ current_pos' >= current_pos
        /\ current_pos' <= Len(formula')

C29_TokenizeTerminates ==
    /\ [][ScanStep]_vars
    /\ [](pc = "tokenize" => <>(pc # "tokenize"))

\* the scan has ended at the end of a formula it crossed in one step of
\* five characters
C29_Witness ==
    /\ Tokenized
    /\ input = <<"=", "A", "1", ":", "A", "1">>
    /\ current_pos = Len(formula)
    /\ Len(tokens) = 1


Revalidated == returned.op = "validate" /\ returned'.op = "validate"

C26_RepeatedValidateChangesNothing ==
    [][Revalidated =>
          /\ returned'.value = returned.value
          /\ formula_obj'.validation_errors = formula_obj.validation_errors]_vars


(***************************************************************************)
(* C27.  Every Formula that was constructed holds an expression that       *)
(* starts with '=' and is at most MAX_FORMULA_LENGTH characters long, and  *)
(* validate on it never fails with "Formula exceeds maximum length".       *)
(***************************************************************************)
Messages(errors) == {errors[i].msg : i \in 1..Len(errors)}

C27_ConstructedExpressionIsWithinLength ==
    formula_obj # None =>
        /\ formula_obj.expression # <<>>
        /\ formula_obj.expression[1] = "="
        /\ Len(formula_obj.expression) <= MAX_FORMULA_LENGTH
        /\ "Formula exceeds maximum length" \notin Messages(formula_obj.validation_errors)


(***************************************************************************)
(* C28.  Every failure parse returns has an error and a details field,     *)
(* the formula "=" included, and Formula.validate records the details of   *)
(* a parse failure in validation_errors without coming to its generic      *)
(* exception handler.                                                      *)
(***************************************************************************)
C28_ParseFailuresCarryErrorAndDetails ==
    formula_obj # None =>
        /\ LET parse_result == ParseResult(formula_obj.expression)
           IN  ~parse_result.success => Has(parse_result, {"error", "details"})
        /\ "Validation error" \notin Messages(formula_obj.validation_errors)

====
